---- MODULE Spec2Model ----
(***************************************************************************)
(* A model of the moss code-intelligence index:                            *)
(*   - FileIndex (crates/moss-cli/src/index.rs): the persisted file        *)
(*     inventory, its schema check, staleness heuristic and refresh;       *)
(*   - the call-graph store and the callers / find-symbols commands        *)
(*     (crates/moss-cli/src/commands/callers.rs, find_symbols.rs);         *)
(*   - PackageIndex and Version (crates/moss-cli/src/external_packages.rs).*)
(* Each subsystem has its own specification (SpecFI, SpecCG, SpecPkg,      *)
(* SpecVer); the variables of the other subsystems stay at their initial   *)
(* values.                                                                 *)
(***************************************************************************)
EXTENDS Integers, Sequences, FiniteSets, TLC

VARIABLES
    \* ---- environment of a project root
    clock,      \* wall clock, whole seconds since the epoch
    fs,         \* path -> {} (absent) or {mtime in seconds}
    gitignore,  \* the paths the project's ignore rules exclude from a walk
    \* ---- FileIndex: the store .moss/index.sqlite and one handle on it
    db,         \* committed store: [files, schema, last]
    work,       \* the open write transaction's view of the store
    pc,         \* "closed" | "idle" | "walking"
    pos,        \* refresh: index of the next walker entry
    count,      \* refresh: the local `count`
    ret,        \* the last FileIndex call and what it returned
    lastOk,     \* result of the latest successful refresh (count, rows)
    chain,      \* the running refresh follows a successful one, the project untouched since that one began
    clean,      \* nobody but the index changed the project since the latest refresh began
    \* ---- call graph: a project's sources, its store and the two query commands
    cgClock,    \* wall clock, whole seconds
    cgFs,       \* [dir: mtime of src, files: file -> {} or {[content, mtime]}]
    cgInv,      \* the files table and last_indexed: [files, last]
    cgStore,    \* [mt: file -> {} or {mtime}, symbols, calls, imports]
    cgRet,      \* the last command or call and its outcome
    obsEmpty,   \* {} or the outcome of the latest query that met an empty index
    \* ---- PackageIndex: the global package store
    fkOn,       \* the linked SQLite enforces foreign keys (a property of the build)
    packages,   \* rows of table packages
    symbols,    \* rows of table symbols
    insCount,   \* number of insert_package calls that succeeded so far
    symCount,   \* number of insert_symbol calls that succeeded so far
    pkgRet,     \* the last PackageIndex call and what it returned
    \* ---- Version: one in_range call
    verIn,      \* its arguments [v, min, max]
    verOut,     \* its results
    \* ---- cmd_index_packages: one writer of the package store and one reader
    run,        \* the writer: an indexing run or a delete_package, statement by statement
    seen,       \* {} or what the reader read since the writer's latest statement
    \* ---- path_resolve::resolve: one call
    prIn,       \* its arguments [query, paths]
    prOut,      \* its result
    \* ---- SymbolParser: one call
    spIn,       \* the source tree it is given
    spOut,      \* its result
    \* ---- an indexing run over the files of a project: their states, one file at a time
    idx,
    \* ---- FlatContext: one context and the items added to it so far
    fc,
    \* ---- generate_tree: one call, the entries the walker yields, the options and the result
    tr,
    \* ---- resolve_go_import: one call, its arguments and its result
    gi,
    \* ---- cmd_path: the command's thread, the thread it spawns, the daemon and its socket
    cp,
    \* ---- ScopeAnalyzer: one analyze and find_definition, the source and the result
    sr,
    \* ---- two concurrent cmd_index_packages processes and the global package store they share
    pp

fiVars == <<clock, fs, gitignore, db, work, pc, pos, count, ret,
            lastOk, chain, clean>>

cgVars == <<cgClock, cgFs, cgInv, cgStore, cgRet, obsEmpty>>

pkgVars == <<fkOn, packages, symbols, insCount, symCount, pkgRet>>

verVars == <<verIn, verOut>>

runVars == <<run, seen>>

prVars == <<prIn, prOut>>

spVars == <<spIn, spOut>>

extVars == <<idx, fc, tr, gi, cp, sr, pp>>

vars == <<fiVars, cgVars, pkgVars, verVars, runVars, prVars, spVars, extVars>>

nonFI == <<cgVars, pkgVars, verVars, runVars, prVars, spVars, extVars>>
nonCG == <<fiVars, pkgVars, verVars, runVars, prVars, spVars, extVars>>
nonPkg == <<fiVars, cgVars, verVars, runVars, prVars, spVars, extVars>>
nonVer == <<fiVars, cgVars, pkgVars, runVars, prVars, spVars, extVars>>
nonRun == <<fiVars, cgVars, verVars, prVars, spVars, extVars>>
nonPr == <<fiVars, cgVars, pkgVars, verVars, runVars, spVars, extVars>>
nonSp == <<fiVars, cgVars, pkgVars, verVars, runVars, prVars, extVars>>
nonIdx == <<fiVars, cgVars, pkgVars, verVars, runVars, prVars, spVars, fc, tr, gi, cp, sr, pp>>
nonFc == <<fiVars, cgVars, pkgVars, verVars, runVars, prVars, spVars, idx, tr, gi, cp, sr, pp>>
nonTr == <<fiVars, cgVars, pkgVars, verVars, runVars, prVars, spVars, idx, fc, gi, cp, sr, pp>>
nonGi == <<fiVars, cgVars, pkgVars, verVars, runVars, prVars, spVars, idx, fc, tr, cp, sr, pp>>
nonCp == <<fiVars, cgVars, pkgVars, verVars, runVars, prVars, spVars, idx, fc, tr, gi, sr, pp>>
nonSr == <<fiVars, cgVars, pkgVars, verVars, runVars, prVars, spVars, idx, fc, tr, gi, cp, pp>>
nonPp == <<fiVars, cgVars, pkgVars, verVars, runVars, prVars, spVars, idx, fc, tr, gi, cp, sr>>

IdleExt == idx = <<>> /\ fc = <<>> /\ tr = <<>> /\ gi = <<>> /\ cp = <<>> /\ sr = <<>> /\ pp = <<>>
IdleNonIdx == fc = <<>> /\ tr = <<>> /\ gi = <<>> /\ cp = <<>> /\ sr = <<>> /\ pp = <<>>
IdleNonFc == idx = <<>> /\ tr = <<>> /\ gi = <<>> /\ cp = <<>> /\ sr = <<>> /\ pp = <<>>
IdleNonTr == idx = <<>> /\ fc = <<>> /\ gi = <<>> /\ cp = <<>> /\ sr = <<>> /\ pp = <<>>
IdleNonGi == idx = <<>> /\ fc = <<>> /\ tr = <<>> /\ cp = <<>> /\ sr = <<>> /\ pp = <<>>
IdleNonCp == idx = <<>> /\ fc = <<>> /\ tr = <<>> /\ gi = <<>> /\ sr = <<>> /\ pp = <<>>
IdleNonSr == idx = <<>> /\ fc = <<>> /\ tr = <<>> /\ gi = <<>> /\ cp = <<>> /\ pp = <<>>
IdleNonPp == idx = <<>> /\ fc = <<>> /\ tr = <<>> /\ gi = <<>> /\ cp = <<>> /\ sr = <<>>

MaxClock == 2
MaxCgClock == 1
MaxMajor == 2
MaxMinor == 2
MaxInserts == 2
MaxSymbols == 2
MaxRuns == 2
MaxDeletes == 1
MaxFaults == 1
MaxNodes == 4
MaxExprDepth == 2

\* --------------------------------------------------------------- utilities

None == {}
Some(v) == {v}
TheVal(o) == CHOOSE v \in o : TRUE
UnwrapOr(o, d) == IF o = None THEN d ELSE TheVal(o)

\* i64::to_string() of a non-negative number: its decimal digits
RECURSIVE ToDecimal(_)
ToDecimal(n) == IF n < 10 THEN <<n>> ELSE Append(ToDecimal(n \div 10), n % 10)

\* SQLite's CAST(value AS INTEGER) of a text of decimal digits
RECURSIVE CastInteger(_)
CastInteger(s) ==
    IF s = <<>> THEN 0
    ELSE 10 * CastInteger(SubSeq(s, 1, Len(s) - 1)) + s[Len(s)]

\* ------------------------------------------------------- FileIndex: statics

SCHEMA_VERSION == 1

Root == "."
MossDir == ".moss"
DbPath == ".moss/index.sqlite"

\* the entries of the project tree, in the order the walker yields them
WalkOrder == <<".", ".moss", ".moss/index.sqlite", "lib", "src", "src/a.py">>

Paths == {WalkOrder[i] : i \in 1..Len(WalkOrder)} \cup {"crates"}

IsDir(p) == p \in {".", ".moss", "lib", "src", "crates"}

Parent(p) ==
    CASE p = ".moss/index.sqlite" -> ".moss"
      [] p = "src/a.py" -> "src"
      [] OTHER -> "."

\* path.strip_prefix(&self.root), to_string_lossy
RelStr(p) == IF p = Root THEN "" ELSE p

Exists(f, p) == f[p] # None

\* metadata().modified().duration_since(UNIX_EPOCH).as_secs(), 0 on any error
MtimeSecs(f, p) == UnwrapOr(f[p], 0)

\* the walker yields p: it exists and no ignore rule excludes it or its parent
RECURSIVE Walked(_, _, _)
Walked(f, ign, p) ==
    /\ Exists(f, p)
    /\ p \notin ign
    /\ (p = Root \/ Walked(f, ign, Parent(p)))

EmptyDb == [files |-> {}, schema |-> None, last |-> None]

Row(p, f) == [path |-> RelStr(p), is_dir |-> IsDir(p), mtime |-> MtimeSecs(f, p)]

\* ------------------------------------------------------ FileIndex: queries

\* SELECT CAST(value AS INTEGER) FROM meta WHERE key = 'schema_version', unwrap_or(0)
StoredVersion(d) == IF d.schema = None THEN 0 ELSE CastInteger(TheVal(d.schema))

\* mutant: only a store of an older schema counts as a mismatch
SchemaMatchesOrNewer(d) == StoredVersion(d) >= SCHEMA_VERSION

\* the test `version != SCHEMA_VERSION` of open, negated
SchemaMatches(d) == StoredVersion(d) = SCHEMA_VERSION

FileCount(d) == Cardinality(d.files)

\* SELECT CAST(value AS INTEGER) FROM meta WHERE key = 'last_indexed', unwrap_or(0)
LastIndexed(d) == IF d.last = None THEN 0 ELSE CastInteger(TheVal(d.last))

\* mutant: the project root is watched too
WatchedDirsWithRoot == <<".", "src", "lib", "crates">>

WatchedDirs == <<"src", "lib", "crates">>

\* the for loop of needs_refresh over the watched directories
RECURSIVE AnyDirNewer(_, _, _)
AnyDirNewer(dirs, f, last) ==
    IF dirs = <<>> THEN FALSE
    ELSE IF Exists(f, Head(dirs)) /\ MtimeSecs(f, Head(dirs)) > last THEN TRUE
    ELSE AnyDirNewer(Tail(dirs), f, last)

NeedsRefresh(d, f) ==
    IF FileCount(d) = 0 THEN TRUE
    ELSE IF LastIndexed(d) = 0 THEN TRUE
    ELSE AnyDirNewer(WatchedDirs, f, LastIndexed(d))

\* ------------------------------------------------- FileIndex: transactions

\* what the store holds after a statement of the refresh transaction failed:
\* the `?` drops the Transaction, whose drop behaviour is rollback
OnErrorStore(committed, w) == committed

\* mutant: the statements run on the connection itself, each in autocommit
AutocommitStatement(committed, w) == w

\* what the committed store (the one every other connection reads) holds
\* after tx.execute ran a statement inside the transaction: nothing of it
AfterStatement(committed, w) == committed

\* all_files() on any connection: the committed rows
AllFiles(d) == d.files

NoRet == [op |-> "none", ok |-> TRUE, flag |-> FALSE]

\* a write to the store file sets its modification time
WroteDb(f) == [f EXCEPT ![DbPath] = Some(clock)]


\* ------------------------------------------------------------------ Version

\* a version is (major, minor), both u32
V(a, b) == [major |-> a, minor |-> b]

Versions == [major : 0..MaxMajor, minor : 0..MaxMinor]

\* u32::cmp
CmpU32(a, b) == IF a < b THEN "Less" ELSE IF a = b THEN "Equal" ELSE "Greater"

\* mutant: the minor number is compared first
VersionCmpMinorFirst(a, b) ==
    IF CmpU32(a.minor, b.minor) = "Equal" THEN CmpU32(a.major, b.major)
    ELSE CmpU32(a.minor, b.minor)

\* impl Ord for Version: match major.cmp { Equal => minor.cmp, ord => ord }
VersionCmp(a, b) ==
    IF CmpU32(a.major, b.major) = "Equal" THEN CmpU32(a.minor, b.minor)
    ELSE CmpU32(a.major, b.major)

\* impl PartialOrd for Version: partial_cmp is Some(cmp); `<` and `>` follow
VersionLt(a, b) == VersionCmp(a, b) = "Less"
VersionGt(a, b) == VersionCmp(a, b) = "Greater"

\* Version::in_range
InRange(v, min, max) ==
    IF VersionLt(v, min) THEN FALSE
    ELSE IF max # None /\ VersionGt(v, TheVal(max)) THEN FALSE
    ELSE TRUE

IdleVer ==
    /\ verIn = [v |-> V(0, 0), min |-> V(0, 0), max |-> None]
    /\ verOut = [called |-> FALSE, res |-> FALSE, ord |-> "Equal"]

\* no indexing run, no reader
IdleRun ==
    /\ run = <<>>
    /\ seen = None

\* no resolve call
IdlePr ==
    /\ prIn = <<>>
    /\ prOut = <<>>

\* no parser call
IdleSp ==
    /\ spIn = <<>>
    /\ spOut = <<>>

\* the components beside the four stores are unused
IdleRest == IdleRun /\ IdlePr /\ IdleSp

InitVer ==
    /\ verIn \in [v : Versions, min : Versions, max : {None} \cup {Some(x) : x \in Versions}]
    /\ verOut = [called |-> FALSE, res |-> FALSE, ord |-> "Equal"]

\* self.in_range(min, max), and self.cmp(&min)
InRangeCall ==
    /\ ~verOut.called
    /\ verOut' = [called |-> TRUE,
                  res |-> InRange(verIn.v, verIn.min, verIn.max),
                  ord |-> VersionCmp(verIn.v, verIn.min)]
    /\ UNCHANGED verIn
    /\ UNCHANGED nonVer

NextVer ==
    \/ InRangeCall

\* -------------------------------------------------------------- PackageIndex

PkgLangs == {"python", "go"}
PkgNames == {"requests"}

\* the (language, name) pairs packages are inserted under
PkgKeys == {<<"python", "requests">>, <<"go", "requests">>}

\* the version ranges packages are inserted with
RangeChoices ==
    {[min |-> V(3, 9), max |-> Some(V(3, 12))],
     [min |-> V(3, 11), max |-> None],
     [min |-> V(0, 0), max |-> None]}

\* the versions find_package is asked for
QueryVersions == {V(2, 7), V(3, 10), V(3, 11), V(3, 13)}

PkgIds == 1..(MaxInserts + 1)

\* PackageRecord::min_version
MinVersion(p) == V(p.min_major, p.min_minor)

\* PackageRecord::max_version
MaxVersion(p) ==
    IF p.max_major # None /\ p.max_minor # None
    THEN Some(V(TheVal(p.max_major), TheVal(p.max_minor)))
    ELSE None

\* Option::map(|v| v.major)
MapOpt(o, field) == IF o = None THEN None ELSE Some(TheVal(o)[field])

\* the rowid SQLite gives a new row of a table with id INTEGER PRIMARY KEY:
\* one more than the largest rowid in the table
NextRowId(rows) ==
    IF rows = {} THEN 1
    ELSE (CHOOSE r \in rows : \A o \in rows : o.id <= r.id).id + 1

\* the rows of a SELECT without ORDER BY on these tables: in rowid order
RECURSIVE RowsById(_)
RowsById(rows) ==
    IF rows = {} THEN <<>>
    ELSE LET m == CHOOSE r \in rows : \A o \in rows : r.id <= o.id
         IN  <<m>> \o RowsById(rows \ {m})

\* find_package, lines 761-767: the first package whose range holds ver
RECURSIVE FirstInRange(_, _)
FirstInRange(pkgs, ver) ==
    IF pkgs = <<>> THEN None
    ELSE IF InRange(ver, MinVersion(Head(pkgs)), MaxVersion(Head(pkgs)))
         THEN Some(Head(pkgs))
         ELSE FirstInRange(Tail(pkgs), ver)

\* mutant: the last row of the language and name, whatever the version
FindPackageLast(pk, language, name, version) ==
    LET rows == RowsById({p \in pk : p.language = language /\ p.name = name})
    IN  IF rows = <<>> THEN None ELSE Some(rows[Len(rows)])

\* PackageIndex::find_package
FindPackage(pk, language, name, version) ==
    LET rows == RowsById({p \in pk : p.language = language /\ p.name = name})
    IN  IF version # None THEN FirstInRange(rows, TheVal(version))
        ELSE IF rows = <<>> THEN None ELSE Some(Head(rows))

\* ORDER BY line of get_symbols
RECURSIVE RowsByLine(_)
RowsByLine(rows) ==
    IF rows = {} THEN <<>>
    ELSE LET m == CHOOSE r \in rows :
                    \A o \in rows : r.line < o.line \/ (r.line = o.line /\ r.id <= o.id)
         IN  <<m>> \o RowsByLine(rows \ {m})

\* PackageIndex::get_symbols
GetSymbols(sy, package_id) == RowsByLine({r \in sy : r.package_id = package_id})

\* mutant: a package counts as indexed from its second row on
IsIndexedMoreThanOnce(pk, language, name) ==
    Cardinality({p \in pk : p.language = language /\ p.name = name}) > 1

\* PackageIndex::is_indexed
IsIndexed(pk, language, name) ==
    Cardinality({p \in pk : p.language = language /\ p.name = name}) > 0

\* mutant: the symbols are left to the foreign key's ON DELETE CASCADE
DeleteSymbolsByCascadeOnly(sy, package_id) == sy

\* DELETE FROM symbols WHERE package_id = ?1
DeleteSymbolsOf(sy, package_id) == {r \in sy : r.package_id # package_id}

\* DELETE FROM packages WHERE id = ?1
DeletePackageRow(pk, package_id) == {p \in pk : p.id # package_id}

\* ON DELETE CASCADE, where the build enforces foreign keys
Cascade(sy, pk, enforced) ==
    IF enforced THEN {r \in sy : \E p \in pk : p.id = r.package_id} ELSE sy

NoPkgRet == [op |-> "none", ok |-> TRUE, id |-> 0, pkg |-> None, syms |-> <<>>, rows |-> 0]

IdlePkg ==
    /\ fkOn = FALSE
    /\ packages = {}
    /\ symbols = {}
    /\ insCount = 0
    /\ symCount = 0
    /\ pkgRet = NoPkgRet

\* PackageIndex::open on a new cache directory: init_schema creates empty tables
InitPkg ==
    /\ fkOn \in BOOLEAN
    /\ packages = {}
    /\ symbols = {}
    /\ insCount = 0
    /\ symCount = 0
    /\ pkgRet = NoPkgRet

\* PackageIndex::insert_package
InsertPackage(language, name, min_version, max_version) ==
    /\ insCount < MaxInserts
    /\ packages' = packages \cup
         {[id |-> NextRowId(packages), language |-> language, name |-> name,
           path |-> "/path/to/" \o name,
           min_major |-> min_version.major, min_minor |-> min_version.minor,
           max_major |-> MapOpt(max_version, "major"),
           max_minor |-> MapOpt(max_version, "minor"),
           ins |-> insCount + 1]}
    /\ insCount' = insCount + 1
    /\ pkgRet' = [NoPkgRet EXCEPT !.op = "insert_package", !.id = NextRowId(packages)]
    /\ UNCHANGED <<fkOn, symbols, symCount>>
    /\ UNCHANGED nonPkg

InsertPackageAny ==
    \E k \in PkgKeys, r \in RangeChoices : InsertPackage(k[1], k[2], r.min, r.max)

\* PackageIndex::insert_symbol
InsertSymbol(package_id, name, kind, signature, line) ==
    /\ symCount < MaxSymbols
    /\ IF fkOn /\ ~\E p \in packages : p.id = package_id
       THEN \* FOREIGN KEY constraint failed
            /\ pkgRet' = [NoPkgRet EXCEPT !.op = "insert_symbol", !.ok = FALSE]
            /\ UNCHANGED symbols
       ELSE /\ symbols' = symbols \cup
                 {[id |-> NextRowId(symbols), package_id |-> package_id, name |-> name,
                   kind |-> kind, signature |-> signature, line |-> line]}
            /\ pkgRet' = [NoPkgRet EXCEPT !.op = "insert_symbol", !.id = NextRowId(symbols)]
    /\ symCount' = symCount + 1
    /\ UNCHANGED <<fkOn, packages, insCount>>
    /\ UNCHANGED nonPkg

InsertSymbolAny ==
    \E id \in {p.id : p \in packages} \cup {NextRowId(packages)}, line \in {42, 100} :
        InsertSymbol(id, "get", "function", "def get(url, **kwargs) -> Response", line)

\* PackageIndex::delete_package; `outcome` is the statement that fails, if any
DeletePackage(package_id, outcome) ==
    /\ CASE outcome = "fail_symbols" ->
              /\ UNCHANGED <<packages, symbols>>
              /\ pkgRet' = [NoPkgRet EXCEPT !.op = "delete_package", !.ok = FALSE,
                                            !.id = package_id]
         [] outcome = "fail_package" ->
              /\ symbols' = DeleteSymbolsOf(symbols, package_id)
              /\ UNCHANGED packages
              /\ pkgRet' = [NoPkgRet EXCEPT !.op = "delete_package", !.ok = FALSE,
                                            !.id = package_id]
         [] OTHER ->
              /\ packages' = DeletePackageRow(packages, package_id)
              /\ symbols' = Cascade(DeleteSymbolsOf(symbols, package_id), packages', fkOn)
              /\ pkgRet' = [NoPkgRet EXCEPT !.op = "delete_package", !.id = package_id,
                              !.rows = Cardinality({r \in symbols : r.package_id = package_id})]
    /\ UNCHANGED <<fkOn, insCount, symCount>>
    /\ UNCHANGED nonPkg

DeletePackageAny ==
    \E id \in PkgIds, outcome \in {"ok", "fail_symbols", "fail_package"} :
        DeletePackage(id, outcome)

FindPackageCall ==
    \E k \in PkgLangs \X PkgNames, q \in {None} \cup {Some(v) : v \in QueryVersions} :
        /\ pkgRet' = [NoPkgRet EXCEPT !.op = "find_package",
                                      !.pkg = FindPackage(packages, k[1], k[2], q)]
        /\ UNCHANGED <<fkOn, packages, symbols, insCount, symCount>>
        /\ UNCHANGED nonPkg

GetSymbolsCall ==
    \E id \in PkgIds :
        /\ pkgRet' = [NoPkgRet EXCEPT !.op = "get_symbols", !.id = id,
                                      !.syms = GetSymbols(symbols, id)]
        /\ UNCHANGED <<fkOn, packages, symbols, insCount, symCount>>
        /\ UNCHANGED nonPkg

\* insert_package as test_package_index calls it: requests for Python 3.8 to 3.12
InsertPackageRequests ==
    InsertPackage("python", "requests", V(3, 8), Some(V(3, 12)))

\* the packages table: insert_package, delete_package, find_package
NextPkg ==
    \/ InsertPackageAny
    \/ DeletePackageAny
    \/ FindPackageCall

\* the symbols table: insert_symbol, delete_package, get_symbols
NextSym ==
    \/ InsertPackageRequests
    \/ InsertSymbolAny
    \/ DeletePackageAny
    \/ GetSymbolsCall

\* ------------------------------------------------------- cmd_index_packages

\* the language whose packages are indexed
RunLang == "python"

\* the python versions lang.get_version and Version::parse yield
RunVersions == {None, Some(V(3, 11)), Some(V(3, 12))}

\* the one package source of the language: site-packages of the interpreter
Source == [name |-> "site-packages", version_specific |-> TRUE]

\* the skeleton of requests/__init__.py: a class with one method
RequestsSkeleton ==
    <<[name |-> "Session", kind |-> "class", signature |-> "class Session",
       start_line |-> 42,
       children |-> <<[name |-> "post", kind |-> "method", signature |-> "def post(self, url)",
                       start_line |-> 100, children |-> <<>>]>>]>>

\* lang.discover_packages(&source) of the one package source: the package names, each with
\* what find_package_entry, read_to_string and extractor.extract give for its path
Discovered ==
    <<[name |-> "requests", entry |-> Some(RequestsSkeleton)],
      [name |-> "six", entry |-> None]>>

\* the order in which count_and_insert_symbols reaches the symbols: each symbol,
\* then its children, then the next symbol
RECURSIVE CountAndInsertOrder(_)
CountAndInsertOrder(syms) ==
    IF syms = <<>> THEN <<>>
    ELSE <<Head(syms)>> \o CountAndInsertOrder(Head(syms).children)
                        \o CountAndInsertOrder(Tail(syms))

\* the symbols index_package_symbols inserts for a discovered package: none when the
\* package has no entry point or the entry point cannot be read
SymbolsToInsert(d) ==
    IF d.entry = None THEN <<>> ELSE CountAndInsertOrder(TheVal(d.entry))

\* the row insert_package stores
NewPackage(pk, language, name, min_version, max_version, ins) ==
    [id |-> NextRowId(pk), language |-> language, name |-> name,
     path |-> "/path/to/" \o name,
     min_major |-> min_version.major, min_minor |-> min_version.minor,
     max_major |-> MapOpt(max_version, "major"),
     max_minor |-> MapOpt(max_version, "minor"),
     ins |-> ins]

\* the row insert_symbol stores
NewSymbol(sy, package_id, name, kind, signature, line) ==
    [id |-> NextRowId(sy), package_id |-> package_id, name |-> name,
     kind |-> kind, signature |-> signature, line |-> line]

\* PackageIndex::clear: a table after it
Clear(rows) == {}

\* the outcomes of a call on the store: it returns Ok, or a rusqlite::Error
StoreOutcomes == {"ok", "err"}

\* the writer before any command. runs: commands started; deletes: delete_package
\* calls started; faults: store calls that returned Err for a reason outside the
\* program; pos: index into Discovered;
\* sym: symbols of the current package handled so far; code: the exit code.
\* Kept for the properties only: is_indexed, the latest result of is_indexed; errs, a store
\* call of this run returned Err; miscounted, a symbol whose insert failed was counted;
\* start, the tables when the loop of this run began; had, the symbols a package had
\* when its delete_package began.
NoRun ==
    [pc |-> "idle", runs |-> 0, deletes |-> 0, faults |-> 0, pos |-> 0, sym |-> 0, pkg_id |-> 0,
     total_packages |-> 0, total_symbols |-> 0,
     min_version |-> V(0, 0), max_version |-> None, code |-> 0,
     is_indexed |-> "none", errs |-> FALSE, miscounted |-> FALSE,
     start |-> [packages |-> {}, symbols |-> {}], had |-> 0]

\* PackageIndex::open on a new cache directory, no command running, nothing read
InitRun ==
    /\ fkOn \in BOOLEAN
    /\ packages = {}
    /\ symbols = {}
    /\ insCount = 0
    /\ symCount = 0
    /\ pkgRet = NoPkgRet
    /\ run = NoRun
    /\ seen = None

\* cmd_index_packages up to the loop over the discovered packages: open, clear when
\* asked, index_language_packages up to its loop
RunBegin(clear, clearOutcome, version) ==
    /\ run.pc \in {"idle", "done"}
    /\ run.runs < MaxRuns
    /\ IF clear /\ clearOutcome = "err"
       THEN \* "Failed to clear index", return 1
            /\ run' = [NoRun EXCEPT !.pc = "done", !.runs = run.runs + 1,
                                    !.deletes = run.deletes,
                                    !.faults = run.faults + 1, !.code = 1,
                                    !.errs = TRUE,
                                    !.start = [packages |-> packages, symbols |-> symbols]]
            /\ UNCHANGED <<packages, symbols>>
       ELSE /\ packages' = IF clear THEN Clear(packages) ELSE packages
            /\ symbols' = IF clear THEN Clear(symbols) ELSE symbols
            /\ run' = [NoRun EXCEPT !.pc = "pkg", !.runs = run.runs + 1,
                                    !.deletes = run.deletes,
                                    !.faults = run.faults, !.pos = 1,
                                    !.min_version = UnwrapOr(version, V(0, 0)),
                                    !.max_version = IF Source.version_specific THEN version
                                                    ELSE None,
                                    !.start = [packages |-> packages', symbols |-> symbols']]
    /\ UNCHANGED <<fkOn, insCount, symCount, pkgRet>>
    /\ seen' = None
    /\ UNCHANGED nonRun

RunBeginAny ==
    \E clear \in BOOLEAN, clearOutcome \in StoreOutcomes, version \in RunVersions :
        /\ ~clear => clearOutcome = "ok"
        /\ clearOutcome = "err" => run.faults < MaxFaults
        /\ RunBegin(clear, clearOutcome, version)

\* one turn of the loop over the discovered packages, lines 370-387, up to the call of
\* count_and_insert_symbols
RunPackage(isIndexedOutcome, insertOutcome) ==
    /\ run.pc = "pkg"
    /\ run.pos <= Len(Discovered)
    /\ LET d == Discovered[run.pos]
           res == IF isIndexedOutcome = "err" THEN "Err"
                  ELSE IF IsIndexed(packages, RunLang, d.name) THEN "Ok(true)"
                  ELSE "Ok(false)"
           row == NewPackage(packages, RunLang, d.name, run.min_version, run.max_version,
                             run.runs)
           failed == run.errs \/ isIndexedOutcome = "err"
           faults == run.faults + (IF isIndexedOutcome = "err" THEN 1 ELSE 0)
       IN  IF res = "Ok(true)"
           THEN \* continue
                /\ run' = [run EXCEPT !.pos = run.pos + 1, !.is_indexed = res]
                /\ UNCHANGED packages
           ELSE IF insertOutcome = "err"
           THEN \* Err(_) => continue
                /\ run' = [run EXCEPT !.pos = run.pos + 1, !.is_indexed = res, !.errs = TRUE,
                                      !.faults = faults + 1]
                /\ UNCHANGED packages
           ELSE /\ packages' = packages \cup {row}
                /\ run' = IF SymbolsToInsert(d) = <<>>
                          THEN [run EXCEPT !.pos = run.pos + 1, !.is_indexed = res,
                                           !.errs = failed, !.faults = faults,
                                           !.pkg_id = row.id,
                                           !.total_packages = run.total_packages + 1]
                          ELSE [run EXCEPT !.pc = "sym", !.sym = 0, !.is_indexed = res,
                                           !.errs = failed, !.faults = faults,
                                           !.pkg_id = row.id,
                                           !.total_packages = run.total_packages + 1]
    /\ UNCHANGED <<fkOn, symbols, insCount, symCount, pkgRet>>
    /\ seen' = None
    /\ UNCHANGED nonRun

RunPackageAny ==
    \E isIndexedOutcome \in StoreOutcomes, insertOutcome \in StoreOutcomes :
        /\ Cardinality({o \in {<<1, isIndexedOutcome>>, <<2, insertOutcome>>} : o[2] = "err"})
               <= MaxFaults - run.faults
        /\ RunPackage(isIndexedOutcome, insertOutcome)

\* one turn of the loop of count_and_insert_symbols, lines 314-324
RunInsertSymbol(outcome) ==
    /\ run.pc = "sym"
    /\ LET syms == SymbolsToInsert(Discovered[run.pos])
           s == syms[run.sym + 1]
           rejected == outcome = "err" \/ (fkOn /\ ~\E p \in packages : p.id = run.pkg_id)
           last == run.sym + 1 = Len(syms)
       IN  /\ symbols' = IF rejected THEN symbols
                         ELSE symbols \cup {NewSymbol(symbols, run.pkg_id, s.name, s.kind,
                                                      s.signature, s.start_line)}
           /\ run' = [run EXCEPT !.sym = run.sym + 1,
                                 !.total_symbols = run.total_symbols + 1,
                                 !.errs = run.errs \/ rejected,
                                 !.faults = run.faults + (IF outcome = "err" THEN 1 ELSE 0),
                                 !.miscounted = run.miscounted \/ rejected,
                                 !.pc = IF last THEN "pkg" ELSE "sym",
                                 !.pos = IF last THEN run.pos + 1 ELSE run.pos]
    /\ UNCHANGED <<fkOn, packages, insCount, symCount, pkgRet>>
    /\ seen' = None
    /\ UNCHANGED nonRun

RunInsertSymbolAny ==
    \E outcome \in StoreOutcomes :
        /\ outcome = "err" => run.faults < MaxFaults
        /\ RunInsertSymbol(outcome)

\* the end of index_language_packages and of cmd_index_packages: the counts are
\* printed and 0 is returned
RunEnd ==
    /\ run.pc = "pkg"
    /\ run.pos > Len(Discovered)
    /\ run' = [run EXCEPT !.pc = "done", !.code = 0]
    /\ UNCHANGED <<fkOn, packages, symbols, insCount, symCount, pkgRet>>
    /\ seen' = None
    /\ UNCHANGED nonRun

\* delete_package, its first statement: DELETE FROM symbols WHERE package_id = ?1
DeletePackageSymbols ==
    \E p \in packages :
        /\ run.pc \in {"idle", "done"}
        /\ run.deletes < MaxDeletes
        /\ symbols' = DeleteSymbolsOf(symbols, p.id)
        /\ run' = [run EXCEPT !.pc = "delete", !.pkg_id = p.id,
                              !.deletes = run.deletes + 1,
                              !.had = Cardinality({r \in symbols : r.package_id = p.id})]
        /\ UNCHANGED <<fkOn, packages, insCount, symCount, pkgRet>>
        /\ seen' = None
        /\ UNCHANGED nonRun

\* delete_package, its second statement: DELETE FROM packages WHERE id = ?1
DeletePackageRecord ==
    /\ run.pc = "delete"
    /\ packages' = DeletePackageRow(packages, run.pkg_id)
    /\ symbols' = Cascade(symbols, packages', fkOn)
    /\ run' = [run EXCEPT !.pc = "idle"]
    /\ UNCHANGED <<fkOn, insCount, symCount, pkgRet>>
    /\ seen' = None
    /\ UNCHANGED nonRun

\* the symbols the writer gives or gave the package of this id: those of its entry
\* point while the package is being indexed, those it had while it is being deleted,
\* those stored otherwise
SymbolsOfPackage(id) ==
    IF run.pc = "sym" /\ run.pkg_id = id THEN Len(SymbolsToInsert(Discovered[run.pos]))
    ELSE IF run.pc = "delete" /\ run.pkg_id = id THEN run.had
    ELSE Cardinality({r \in symbols : r.package_id = id})

\* a reader on its own connection: one package and the symbols stored for it, read
\* together between two statements of the writer
ReadPackage ==
    \E p \in packages :
        /\ seen' = Some([symbols |-> Cardinality({r \in symbols : r.package_id = p.id}),
                         of |-> SymbolsOfPackage(p.id),
                         errs |-> run.errs])
        /\ UNCHANGED <<fkOn, packages, symbols, insCount, symCount, pkgRet, run>>
        /\ UNCHANGED nonRun

\* one writer of the package store, an indexing run or a delete_package, and one reader
NextRun ==
    \/ RunBeginAny
    \/ RunPackageAny
    \/ RunInsertSymbolAny
    \/ RunEnd
    \/ DeletePackageSymbols
    \/ DeletePackageRecord
    \/ ReadPackage

\* ------------------------------------------------------------- path_resolve

\* Strings are sequences of one-character strings, so that the code's splitting,
\* lowercasing and comparing can be computed.

\* char::to_lowercase on the letters that occur
LowerChar(c) ==
    CASE c = "D" -> "d"
      [] c = "W" -> "w"
      [] c = "I" -> "i"
      [] c = "M" -> "m"
      [] c = "P" -> "p"
      [] c = "Y" -> "y"
      [] c = "T" -> "t"
      [] c = "E" -> "e"
      [] c = "S" -> "s"
      [] OTHER -> c

\* str::to_lowercase
ToLowercase(s) == [i \in 1..Len(s) |-> LowerChar(s[i])]

\* str::contains(char)
ContainsChar(s, c) == \E i \in 1..Len(s) : s[i] = c

\* the position of the first c in s, 0 when there is none
FirstIndex(s, c) ==
    IF ContainsChar(s, c) THEN CHOOSE i \in 1..Len(s) : s[i] = c /\ \A j \in 1..(i - 1) : s[j] # c
    ELSE 0

\* the position of the last c in s, 0 when there is none
LastIndex(s, c) ==
    IF ContainsChar(s, c)
    THEN CHOOSE i \in 1..Len(s) : s[i] = c /\ \A j \in (i + 1)..Len(s) : s[j] # c
    ELSE 0

\* query.split(':').next().unwrap()
FilePart(query) ==
    IF ContainsChar(query, ":") THEN SubSeq(query, 1, FirstIndex(query, ":") - 1) ELSE query

\* Path::file_name of a relative path the walker yields: its last component
FileName(path) == SubSeq(path, LastIndex(path, "/") + 1, Len(path))

\* Path::file_stem: the file name up to its last dot; the whole name when it has no dot
\* or its only dot is its first character
FileStem(path) ==
    LET name == FileName(path)
        dot == LastIndex(name, ".")
    IN  IF dot <= 1 THEN name ELSE SubSeq(name, 1, dot - 1)

\* a u32 as its two 16-bit halves
U32(hi, lo) == <<hi, lo>>

\* u32::MAX
U32Max == U32(65535, 65535)

\* u32::MAX - 1
U32MaxLess1 == U32(65535, 65534)

\* a.cmp(&b) on u32: a <= b
U32Leq(a, b) == a[1] < b[1] \/ (a[1] = b[1] /\ a[2] <= b[2])

\* the result cap of fuzzy_matches.truncate
ResultCap == 10

\* if *is_dir { "directory" } else { "file" }
KindOf(is_dir) == IF is_dir THEN "directory" ELSE "file"

PathMatch(path, is_dir, score) == [path |-> path, kind |-> KindOf(is_dir), score |-> score]

\* mutant: the exact stage is left out
ExactMatchSkipped(query, all_paths) == <<>>

\* lines 50-58: the first walked path equal to the query
RECURSIVE ExactMatch(_, _)
ExactMatch(query, all_paths) ==
    IF all_paths = <<>> THEN <<>>
    ELSE IF Head(all_paths)[1] = query
         THEN <<PathMatch(Head(all_paths)[1], Head(all_paths)[2], U32Max)>>
         ELSE ExactMatch(query, Tail(all_paths))

\* mutant: the file name is compared, the stem is not
RECURSIVE NameMatchesNoStem(_, _)
NameMatchesNoStem(query_lower, all_paths) ==
    IF all_paths = <<>> THEN <<>>
    ELSE LET path == Head(all_paths)[1]
             hit == ToLowercase(FileName(path)) = query_lower
         IN  (IF hit THEN <<PathMatch(path, Head(all_paths)[2], U32MaxLess1)>> ELSE <<>>)
             \o NameMatchesNoStem(query_lower, Tail(all_paths))

\* lines 61-79: the walked paths whose lowercased file name or stem is the lowercased query
RECURSIVE NameMatches(_, _)
NameMatches(query_lower, all_paths) ==
    IF all_paths = <<>> THEN <<>>
    ELSE LET path == Head(all_paths)[1]
             name == ToLowercase(FileName(path))
             stem == ToLowercase(FileStem(path))
             hit == name = query_lower \/ stem = query_lower
         IN  (IF hit THEN <<PathMatch(path, Head(all_paths)[2], U32MaxLess1)>> ELSE <<>>)
             \o NameMatches(query_lower, Tail(all_paths))

\* needle is a subsequence of hay from position i of needle and j of hay on
RECURSIVE SubsequenceFrom(_, _, _, _)
SubsequenceFrom(needle, hay, i, j) ==
    IF i > Len(needle) THEN TRUE
    ELSE IF j > Len(hay) THEN FALSE
    ELSE IF needle[i] = hay[j] THEN SubsequenceFrom(needle, hay, i + 1, j + 1)
    ELSE SubsequenceFrom(needle, hay, i, j + 1)

\* pattern.score(path) is Some: the query's characters occur in the path in order,
\* case ignored (CaseMatching::Ignore)
FuzzyHit(query, path) == SubsequenceFrom(ToLowercase(query), ToLowercase(path), 1, 1)

\* lines 91-100: the walked paths the pattern scores, in walk order; score(k) is the
\* score the matcher gives the k-th walked path
RECURSIVE FuzzyScored(_, _, _, _)
FuzzyScored(query, all_paths, score, k) ==
    IF k > Len(all_paths) THEN <<>>
    ELSE (IF FuzzyHit(query, all_paths[k][1])
          THEN <<PathMatch(all_paths[k][1], all_paths[k][2], score[k])>> ELSE <<>>)
         \o FuzzyScored(query, all_paths, score, k + 1)

\* sort_by(|a, b| b.score.cmp(&a.score)): stable, highest score first
RECURSIVE InsertByScore(_, _)
InsertByScore(m, sorted) ==
    IF sorted = <<>> THEN <<m>>
    ELSE IF U32Leq(m.score, Head(sorted).score)
         THEN <<Head(sorted)>> \o InsertByScore(m, Tail(sorted))
         ELSE <<m>> \o sorted

RECURSIVE SortByScore(_)
SortByScore(ms) ==
    IF ms = <<>> THEN <<>>
    ELSE InsertByScore(ms[Len(ms)], SortByScore(SubSeq(ms, 1, Len(ms) - 1)))

\* Vec::truncate
Truncate(s, n) == IF Len(s) <= n THEN s ELSE SubSeq(s, 1, n)

\* resolve for a query without ':', lines 26-106
ResolvePlain(query, all_paths, score) ==
    LET exact == ExactMatch(query, all_paths)
        exact_matches == NameMatches(ToLowercase(query), all_paths)
    IN  IF exact # <<>> THEN exact
        ELSE IF exact_matches # <<>> THEN exact_matches
        ELSE Truncate(SortByScore(FuzzyScored(query, all_paths, score, 1)), ResultCap)

\* path_resolve::resolve
Resolve(query, all_paths, score) ==
    IF ContainsChar(query, ":") THEN ResolvePlain(FilePart(query), all_paths, score)
    ELSE ResolvePlain(query, all_paths, score)

\* the walks: (relative path, is_dir) in the order the walker yields them
TreeMoss ==
    <<<<<<"s", "r", "c">>, TRUE>>,
      <<<<"s", "r", "c", "/", "m", "o", "s", "s">>, TRUE>>,
      <<<<"s", "r", "c", "/", "m", "o", "s", "s", "/", "c", "l", "i", ".", "p", "y">>, FALSE>>,
      <<<<"s", "r", "c", "/", "m", "o", "s", "s", "/", "d", "w", "i", "m", ".", "p", "y">>, FALSE>>,
      <<<<"s", "r", "c", "/", "D", "w", "i", "m", ".", "r", "s">>, FALSE>>>>

TreeColon ==
    <<<<<<"a">>, FALSE>>,
      <<<<"a", ":", "b">>, FALSE>>,
      <<<<"l", "i", "b">>, TRUE>>,
      <<<<"l", "i", "b", "/", "b", ".", "r", "s">>, FALSE>>>>

TreeMany ==
    <<<<<<"m">>, TRUE>>,
      <<<<"m", "/", "f", "0">>, FALSE>>,
      <<<<"m", "/", "f", "1">>, FALSE>>,
      <<<<"m", "/", "f", "2">>, FALSE>>,
      <<<<"m", "/", "f", "3">>, FALSE>>,
      <<<<"m", "/", "f", "4">>, FALSE>>,
      <<<<"m", "/", "f", "5">>, FALSE>>,
      <<<<"m", "/", "f", "6">>, FALSE>>,
      <<<<"m", "/", "f", "7">>, FALSE>>,
      <<<<"m", "/", "f", "8">>, FALSE>>,
      <<<<"m", "/", "f", "9">>, FALSE>>,
      <<<<"m", "/", "f", "a">>, FALSE>>,
      <<<<"m", "/", "f", "b">>, FALSE>>>>

Trees == {TreeMoss, TreeColon, TreeMany}

ResolveQueries ==
    {<<"s", "r", "c", "/", "m", "o", "s", "s", "/", "c", "l", "i", ".", "p", "y">>,
     <<"d", "w", "i", "m", ".", "p", "y">>,
     <<"d", "w", "i", "m">>,
     <<"D", "W", "I", "M", ".", "P", "Y">>,
     <<"c", "l", "i">>,
     <<"m", "o", "s", "s">>,
     <<"a">>,
     <<"a", ":", "b">>,
     <<"l", "i", "b", "/", "b", ".", "r", "s">>,
     <<"l", "i", "b", "/", "b", ".", "r", "s", ":", "m", "a", "i", "n">>,
     <<"m", "f">>,
     <<"z", "z">>}

\* the scores the matcher gives the walked paths it matches: rising, falling and
\* repeating along the walk
ScoreChoices(n) ==
    {[k \in 1..n |-> U32(0, k)],
     [k \in 1..n |-> U32(0, n - k)],
     [k \in 1..n |-> U32(0, k % 3)],
     [k \in 1..n |-> U32(k % 2, 7)]}

NoPrOut == [called |-> FALSE, matches |-> <<>>]

InitPr ==
    /\ \E all_paths \in Trees :
         prIn \in [query : ResolveQueries, all_paths : {all_paths},
                   score : ScoreChoices(Len(all_paths))]
    /\ prOut = NoPrOut

ResolveCall ==
    /\ ~prOut.called
    /\ prOut' = [called |-> TRUE,
                 matches |-> Resolve(prIn.query, prIn.all_paths, prIn.score)]
    /\ UNCHANGED prIn
    /\ UNCHANGED nonPr

NextPr ==
    \/ ResolveCall

\* ------------------------------------------------- SymbolParser::parse_file

\* The syntax tree of the content is given in document order: nodes[i] is the i-th node
\* below the root, with its kind and its depth (1 for a child of the root). Every node
\* starts on a line of its own, line i, and its name is the identifier i.

PythonKinds == {"function_definition", "class_definition", "block"}

RustKinds == {"function_item", "impl_item", "trait_item", "block"}

\* the node kinds of the grammar chosen for the extension
KindsOf(ext) ==
    IF ext = "py" THEN PythonKinds ELSE IF ext = "rs" THEN RustKinds ELSE {"block"}

\* the depth of node i; the root is node 0
DepthOf(nodes, i) == IF i = 0 THEN 0 ELSE nodes[i].depth

\* node j lies below node i
Below(nodes, i, j) ==
    /\ i < j
    /\ \A k \in (i + 1)..j : DepthOf(nodes, k) > DepthOf(nodes, i)

\* the children of node i, in order: goto_first_child, then goto_next_sibling
ChildrenOf(nodes, i) ==
    SelectSeq([j \in 1..Len(nodes) |-> j],
              LAMBDA j : Below(nodes, i, j) /\ DepthOf(nodes, j) = DepthOf(nodes, i) + 1)

\* node.end_position().row + 1: the line of the last node below i, or of i
EndLine(nodes, i) ==
    CHOOSE j \in i..Len(nodes) :
        /\ j = i \/ Below(nodes, i, j)
        /\ \A k \in (j + 1)..Len(nodes) : ~Below(nodes, i, k)

\* mutant: every function is a Function
FunctionKindTopLevel(parent) == "Function"

\* if parent.is_some() { SymbolKind::Method } else { SymbolKind::Function }
FunctionKind(parent) == IF parent # None THEN "Method" ELSE "Function"

\* Symbol { name, kind, start_line, end_line, parent }
SymbolAt(nodes, i, kind, parent) ==
    [name |-> i, kind |-> kind, start_line |-> i, end_line |-> EndLine(nodes, i),
     parent |-> parent]

\* collect_python_symbols over the siblings sibs
RECURSIVE CollectPythonSymbols(_, _, _)
CollectPythonSymbols(nodes, sibs, parent) ==
    IF sibs = <<>> THEN <<>>
    ELSE LET i == Head(sibs)
             kind == nodes[i].kind
             rest == CollectPythonSymbols(nodes, Tail(sibs), parent)
         IN  IF kind = "function_definition"
             THEN <<SymbolAt(nodes, i, FunctionKind(parent), parent)>>
                  \o CollectPythonSymbols(nodes, ChildrenOf(nodes, i), parent) \o rest
             ELSE IF kind = "class_definition"
             THEN <<SymbolAt(nodes, i, "Class", parent)>>
                  \o CollectPythonSymbols(nodes, ChildrenOf(nodes, i), Some(i)) \o rest
             ELSE CollectPythonSymbols(nodes, ChildrenOf(nodes, i), parent) \o rest

\* collect_rust_symbols over the siblings sibs; the type of an impl_item at i is named i
RECURSIVE CollectRustSymbols(_, _, _)
CollectRustSymbols(nodes, sibs, parent) ==
    IF sibs = <<>> THEN <<>>
    ELSE LET i == Head(sibs)
             kind == nodes[i].kind
             rest == CollectRustSymbols(nodes, Tail(sibs), parent)
         IN  IF kind = "function_item"
             THEN <<SymbolAt(nodes, i, FunctionKind(parent), parent)>>
                  \o CollectRustSymbols(nodes, ChildrenOf(nodes, i), parent) \o rest
             ELSE IF kind = "trait_item"
             THEN <<SymbolAt(nodes, i, "Class", parent)>>
                  \o CollectRustSymbols(nodes, ChildrenOf(nodes, i), parent) \o rest
             ELSE IF kind = "impl_item"
             THEN CollectRustSymbols(nodes, ChildrenOf(nodes, i), Some(i)) \o rest
             ELSE CollectRustSymbols(nodes, ChildrenOf(nodes, i), parent) \o rest

\* SymbolParser::parse_file
ParseFile(ext, nodes) ==
    IF ext = "py" THEN CollectPythonSymbols(nodes, ChildrenOf(nodes, 0), None)
    ELSE IF ext = "rs" THEN CollectRustSymbols(nodes, ChildrenOf(nodes, 0), None)
    ELSE <<>>

NoSpOut == [called |-> FALSE, symbols |-> <<>>]

\* a file of one of the extensions, empty
InitParse ==
    /\ spIn \in [ext : {"py", "rs", "txt"}, nodes : {<<>>}]
    /\ spOut = NoSpOut

\* the content grows by one node: a child of the last node, a sibling of it, or a
\* sibling of one of the nodes it lies below
AddNode ==
    \E kind \in KindsOf(spIn.ext),
       depth \in 1..(DepthOf(spIn.nodes, Len(spIn.nodes)) + 1) :
        /\ ~spOut.called
        /\ Len(spIn.nodes) < MaxNodes
        /\ spIn' = [spIn EXCEPT !.nodes = Append(@, [kind |-> kind, depth |-> depth])]
        /\ UNCHANGED spOut
        /\ UNCHANGED nonSp

ParseFileCall ==
    /\ ~spOut.called
    /\ spOut' = [called |-> TRUE, symbols |-> ParseFile(spIn.ext, spIn.nodes)]
    /\ UNCHANGED spIn
    /\ UNCHANGED nonSp

NextParse ==
    \/ AddNode
    \/ ParseFileCall

\* ------------------------------------------ SymbolParser::find_calls_in_source

\* An expression is [form, name, inner]: an identifier, or a form around one inner
\* expression. "attribute" is inner.name, "scoped" is inner::name, "generic" is
\* inner::<T>, "call" is inner(), "call_arg" is inner(x.y), "subscript" is inner[0],
\* "paren" is (inner).

ExprNames == {"a", "b"}

Ident(n) == [form |-> "ident", name |-> n, inner |-> <<>>]

Around(form, n, e) == [form |-> form, name |-> n, inner |-> <<e>>]

\* the forms of both grammars, and those of the Rust grammar alone
CommonForms == {"call", "call_arg", "subscript", "paren"}

RustOnlyForms == {"scoped", "generic"}

\* the expressions nested at most d deep
RECURSIVE ExprsUpTo(_)
ExprsUpTo(d) ==
    IF d = 0 THEN {Ident(n) : n \in ExprNames}
    ELSE LET E == ExprsUpTo(d - 1)
         IN  E \cup {Around("attribute", n, e) : n \in ExprNames, e \in E}
               \cup {Around("scoped", n, e) : n \in ExprNames, e \in E}
               \cup {Around("generic", "T", e) : e \in E}
               \cup {Around(f, "", e) : f \in CommonForms, e \in E}

\* the expression has a form the Python grammar does not have
RECURSIVE RustOnly(_)
RustOnly(e) ==
    IF e.form = "ident" THEN FALSE
    ELSE e.form \in RustOnlyForms \/ RustOnly(e.inner[1])

\* &content[node.byte_range()]: the text of the expression
RECURSIVE TextOf(_)
TextOf(e) ==
    CASE e.form = "ident" -> <<e.name>>
      [] e.form = "attribute" -> TextOf(e.inner[1]) \o <<".", e.name>>
      [] e.form = "scoped" -> TextOf(e.inner[1]) \o <<":", ":", e.name>>
      [] e.form = "generic" -> TextOf(e.inner[1]) \o <<":", ":", "<", e.name, ">">>
      [] e.form = "call" -> TextOf(e.inner[1]) \o <<"(", ")">>
      [] e.form = "call_arg" -> TextOf(e.inner[1]) \o <<"(", "x", ".", "y", ")">>
      [] e.form = "subscript" -> TextOf(e.inner[1]) \o <<"[", "0", "]">>
      [] OTHER -> <<"(">> \o TextOf(e.inner[1]) \o <<")">>

\* text.split('.').last()
AfterLastDot(text) == SubSeq(text, LastIndex(text, ".") + 1, Len(text))

\* text.split("::").last()
AfterLastColons(text) ==
    LET starts == {i \in 1..(Len(text) - 1) : text[i] = ":" /\ text[i + 1] = ":"}
    IN  IF starts = {} THEN text
        ELSE SubSeq(text, (CHOOSE i \in starts : \A j \in starts : j <= i) + 2, Len(text))

\* lines 269-270: the callee name of a Python call
PythonCallee(func_text) == AfterLastDot(func_text)

\* lines 316-321: the callee name of a Rust call
RustCallee(func_text) == AfterLastDot(AfterLastColons(func_text))

\* collect_python_calls_with_lines, collect_rust_calls_with_lines: the calls of the
\* expression, outermost first; the source is one line, row 0
RECURSIVE CollectCalls(_, _)
CollectCalls(e, rust) ==
    IF e.form = "ident" THEN <<>>
    ELSE IF e.form \in {"call", "call_arg"}
    THEN <<[name |-> IF rust THEN RustCallee(TextOf(e.inner[1]))
                     ELSE PythonCallee(TextOf(e.inner[1])),
            line |-> 0]>> \o CollectCalls(e.inner[1], rust)
    ELSE CollectCalls(e.inner[1], rust)

\* find_calls_in_source: the Python calls if there are any, the Rust calls otherwise;
\* the Python parser is taken to find no call in a source with `::`
FindCallsInSource(e) ==
    LET py_calls == IF RustOnly(e) THEN <<>> ELSE CollectCalls(e, FALSE)
    IN  IF py_calls # <<>> THEN py_calls ELSE CollectCalls(e, TRUE)

NoCallsOut == [called |-> FALSE, calls |-> <<>>]

InitCalls ==
    /\ spIn \in ExprsUpTo(MaxExprDepth)
    /\ spOut = NoCallsOut

FindCallsCall ==
    /\ ~spOut.called
    /\ spOut' = [called |-> TRUE, calls |-> FindCallsInSource(spIn)]
    /\ UNCHANGED spIn
    /\ UNCHANGED nonSp

NextCalls ==
    \/ FindCallsCall

\* --------------------------------------------------------- call graph: statics

CgFiles == {"src/a.py", "src/b.py"}

\* files in the order of their paths
FileOrder == <<"src/a.py", "src/b.py">>

\* the position of a path in the order of the paths
FileRank(f) == IF f = "src/a.py" THEN 1 ELSE 2

ProgFoo == "def foo(): bar()"
ProgBar == "def bar(): pass"
ProgBaz == "import os\ndef bar(): foo()\ndef baz(): bar()"

\* the texts a file is given
Programs(f) == IF f = "src/a.py" THEN {ProgFoo, ProgBar} ELSE {ProgBaz}

\* what the extraction engine yields for a source text: its symbols, its
\* call sites (in document order, each with the enclosing function) and its imports
Extract(src) ==
    CASE src = ProgFoo ->
           [symbols |-> {[name |-> "foo", kind |-> "function", line |-> 1]},
            calls   |-> <<[caller |-> "foo", callee |-> "bar", line |-> 1]>>,
            imports |-> {}]
      [] src = ProgBar ->
           [symbols |-> {[name |-> "bar", kind |-> "function", line |-> 1]},
            calls   |-> <<>>,
            imports |-> {}]
      [] OTHER ->
           [symbols |-> {[name |-> "bar", kind |-> "function", line |-> 2],
                         [name |-> "baz", kind |-> "function", line |-> 3]},
            calls   |-> <<[caller |-> "bar", callee |-> "foo", line |-> 2],
                          [caller |-> "baz", callee |-> "bar", line |-> 3]>>,
            imports |-> {[module |-> "os", line |-> 1]}]

QueryNames == {"bar", "nosuch"}

EmptyStore ==
    [mt |-> [f \in CgFiles |-> None], symbols |-> {}, calls |-> <<>>, imports |-> {}]

EmptyInv == [files |-> {}, last |-> None]

CgExists(f) == cgFs.files[f] # None
CgMtime(f) == TheVal(cgFs.files[f]).mtime
CgContent(f) == TheVal(cgFs.files[f]).content

\* the rows a walk of the project yields (the call graph reads their paths only)
Listing == {[path |-> f, is_dir |-> FALSE] : f \in {g \in CgFiles : CgExists(g)}}
             \cup {[path |-> "src", is_dir |-> TRUE]}

\* FileIndex::refresh, as one step
InventoryRefresh == [files |-> Listing, last |-> Some(ToDecimal(cgClock))]

\* FileIndex::incremental_refresh: upserts and removes rows to match the project
IncrementalRefresh(inv) == [files |-> Listing, last |-> Some(ToDecimal(cgClock))]

\* needs_refresh() on this project
CgNeedsRefresh(inv) ==
    NeedsRefresh([files |-> inv.files, schema |-> Some(ToDecimal(SCHEMA_VERSION)), last |-> inv.last],
                 [p \in {"src", "lib", "crates"} |-> IF p = "src" THEN Some(cgFs.dir) ELSE None])

\* the source files the inventory lists
Listed(inv) == {f \in CgFiles : CgExists(f) /\ \E r \in inv.files : r.path = f}

\* the rows stored for one file
RowsOf(store, f) ==
    [mt      |-> store.mt[f],
     symbols |-> {r \in store.symbols : r.file = f},
     calls   |-> SelectSeq(store.calls, LAMBDA r : r.file = f),
     imports |-> {r \in store.imports : r.file = f}]

\* call_graph_stats(): (symbols, calls, imports)
CallGraphStats(store) ==
    <<Cardinality(store.symbols), Len(store.calls), Cardinality(store.imports)>>

\* delete the rows of file f and insert those of its current content
ReExtract(store, f) ==
    LET x == Extract(CgContent(f)) IN
    [mt      |-> [store.mt EXCEPT ![f] = Some(CgMtime(f))],
     symbols |-> {r \in store.symbols : r.file # f}
                   \cup {[file |-> f, name |-> y.name, kind |-> y.kind, line |-> y.line] : y \in x.symbols},
     calls   |-> SelectSeq(store.calls, LAMBDA r : r.file # f)
                   \o [i \in 1..Len(x.calls) |->
                         [file |-> f, caller |-> x.calls[i].caller,
                          callee |-> x.calls[i].callee, line |-> x.calls[i].line]],
     imports |-> {r \in store.imports : r.file # f}
                   \cup {[file |-> f, module |-> y.module, line |-> y.line] : y \in x.imports}]

RECURSIVE ReExtractAll(_, _, _)
ReExtractAll(store, order, todo) ==
    IF order = <<>> THEN store
    ELSE ReExtractAll(IF Head(order) \in todo THEN ReExtract(store, Head(order)) ELSE store,
                      Tail(order), todo)

\* the files incremental_call_graph_refresh re-extracts: new ones, and those
\* whose stored modification time is not the current one
ChangedFiles(store, inv) ==
    {f \in Listed(inv) : store.mt[f] = None \/ TheVal(store.mt[f]) # CgMtime(f)}

\* incremental_call_graph_refresh(): the store afterwards
IncrementalCallGraphRefresh(store, inv) ==
    ReExtractAll(store, FileOrder, ChangedFiles(store, inv))

\* refresh_call_graph(): every listed file is extracted anew
RefreshCallGraph(store, inv) ==
    ReExtractAll(EmptyStore, FileOrder, Listed(inv))

\* mutant: cmd_callers rebuilds the whole call graph
BuildCallGraphFull(store, inv) == RefreshCallGraph(store, inv)

\* cmd_callers, line 59: the call graph is built by the incremental refresh
BuildCallGraph(store, inv) == IncrementalCallGraphRefresh(store, inv)

\* r comes before q in ORDER BY file, line
CallBefore(r, q) ==
    \/ FileRank(r.file) < FileRank(q.file)
    \/ (r.file = q.file /\ r.line <= q.line)

\* insert row r into a sorted sequence, after the rows it does not precede
RECURSIVE InsertSorted(_, _)
InsertSorted(sorted, r) ==
    IF sorted = <<>> THEN <<r>>
    ELSE IF CallBefore(Head(sorted), r) THEN <<Head(sorted)>> \o InsertSorted(Tail(sorted), r)
    ELSE <<r>> \o sorted

RECURSIVE SortCalls(_)
SortCalls(rows) ==
    IF rows = <<>> THEN <<>>
    ELSE InsertSorted(SortCalls(SubSeq(rows, 1, Len(rows) - 1)), rows[Len(rows)])

\* mutant: the matching edges in the order they were stored
FindCallersUnordered(store, name) ==
    LET hit == SelectSeq(store.calls, LAMBDA r : r.callee = name)
    IN  [i \in 1..Len(hit) |-> <<hit[i].file, hit[i].caller, hit[i].line>>]

\* find_callers(name): (file, symbol, line) of every edge to name, by file, then line
FindCallers(store, name) ==
    LET hit == SortCalls(SelectSeq(store.calls, LAMBDA r : r.callee = name))
    IN  [i \in 1..Len(hit) |-> <<hit[i].file, hit[i].caller, hit[i].line>>]

\* find_symbols(name, kind, fuzzy = false, limit): the symbols named name
FindSymbols(store, name, kind, limit) ==
    LET hit == {r \in store.symbols : r.name = name /\ (kind = None \/ r.kind = TheVal(kind))}
    IN  IF Cardinality(hit) <= limit THEN hit
        ELSE CHOOSE t \in SUBSET hit : Cardinality(t) = limit

NoCgRet ==
    [cmd |-> "none", json |-> FALSE, code |-> 0, out |-> "none", err |-> <<>>, on |-> "none",
     redone |-> {}]

NoObs == None

IdleCG ==
    /\ cgClock = 0
    /\ cgFs = [dir |-> 0, files |-> [f \in CgFiles |-> None]]
    /\ cgInv = EmptyInv
    /\ cgStore = EmptyStore
    /\ cgRet = NoCgRet
    /\ obsEmpty = NoObs

\* a project with src/a.py, with or without src/b.py; nothing indexed yet
InitCG ==
    /\ cgClock = 0
    /\ \E b \in {None, Some([content |-> ProgBaz, mtime |-> 0])} :
         cgFs = [dir |-> 0,
                 files |-> [f \in CgFiles |->
                              IF f = "src/a.py" THEN Some([content |-> ProgFoo, mtime |-> 0])
                              ELSE b]]
    /\ cgInv = EmptyInv
    /\ cgStore = EmptyStore
    /\ cgRet = NoCgRet
    /\ obsEmpty = NoObs

\* ------------------------------------------------------- call graph: actions

CgTick ==
    /\ cgClock < MaxCgClock
    /\ cgClock' = cgClock + 1
    /\ UNCHANGED <<cgFs, cgInv, cgStore, cgRet, obsEmpty>>
    /\ UNCHANGED nonCG

\* someone rewrites a source file
EditFile ==
    \E f \in CgFiles : \E c \in Programs(f) :
        /\ CgExists(f)
        /\ CgContent(f) # c
        /\ cgFs' = [cgFs EXCEPT !.files[f] = Some([content |-> c, mtime |-> cgClock])]
        /\ UNCHANGED <<cgClock, cgInv, cgStore, cgRet, obsEmpty>>
        /\ UNCHANGED nonCG

\* someone creates src/b.py
CreateFile ==
    \E c \in Programs("src/b.py") :
        /\ ~CgExists("src/b.py")
        /\ cgFs' = [dir |-> cgClock,
                    files |-> [cgFs.files EXCEPT !["src/b.py"] = Some([content |-> c, mtime |-> cgClock])]]
        /\ UNCHANGED <<cgClock, cgInv, cgStore, cgRet, obsEmpty>>
        /\ UNCHANGED nonCG

\* cmd_reindex(root, call_graph)
CmdReindex ==
    \E call_graph \in BOOLEAN :
        /\ cgInv' = InventoryRefresh
        /\ cgStore' = IF call_graph THEN RefreshCallGraph(cgStore, cgInv') ELSE cgStore
        /\ cgRet' = [NoCgRet EXCEPT !.cmd = "reindex"]
        /\ UNCHANGED <<cgClock, cgFs, obsEmpty>>
        /\ UNCHANGED nonCG

\* a direct call of incremental_call_graph_refresh() on an open index
IncrementalCallGraphRefreshCall ==
    /\ cgStore' = IncrementalCallGraphRefresh(cgStore, cgInv)
    /\ cgRet' = [NoCgRet EXCEPT !.cmd = "incremental_call_graph_refresh",
                                !.redone = ChangedFiles(cgStore, cgInv)]
    /\ UNCHANGED <<cgClock, cgFs, cgInv, obsEmpty>>
    /\ UNCHANGED nonCG

\* what the calling layer gets from a command: its exit code, what it wrote
\* to standard output and the messages it wrote to standard error
Outcome(r) == [cmd |-> r.cmd, json |-> r.json, code |-> r.code, out |-> r.out, err |-> r.err]

\* the result of a command that printed its matches
Printed(cmd, json, err) ==
    [NoCgRet EXCEPT !.cmd = cmd, !.json = json, !.err = err,
                    !.out = IF json THEN "json_rows" ELSE "rows"]

\* the result of a command that ended with exit code 1
Failed(cmd, json, out, err) ==
    [NoCgRet EXCEPT !.cmd = cmd, !.json = json, !.code = 1, !.out = out, !.err = err]

\* mutant: the call graph is never taken to be populated
IndexPopulatedNever(calls) == FALSE

\* cmd_callers, line 16: the call graph is populated
IndexPopulated(calls) == calls > 0

\* cmd_callers(symbol, root, json)
CmdCallers(symbol, json, openOk) ==
    LET calls == IF openOk THEN CallGraphStats(cgStore)[2] ELSE 0
        hitFast == FindCallers(cgStore, symbol)
        inv2 == IF CgNeedsRefresh(cgInv) THEN IncrementalRefresh(cgInv) ELSE cgInv
        store2 == BuildCallGraph(cgStore, inv2)
        hitSlow == FindCallers(store2, symbol)
        r == IF openOk /\ IndexPopulated(calls)
             THEN IF hitFast # <<>>
                  THEN Printed("callers", json, <<>>)
                  ELSE Failed("callers", json, "none", <<"No callers found for: {} (index has {} calls)">>)
             ELSE IF ~openOk
             THEN Failed("callers", json, "none",
                         <<"Call graph not indexed. Building now...", "Failed to open index">>)
             ELSE IF hitSlow # <<>>
             THEN Printed("callers", json,
                          <<"Call graph not indexed. Building now...",
                            "Indexed {} symbols, {} calls, {} imports">>)
             ELSE Failed("callers", json, "none",
                         <<"Call graph not indexed. Building now...",
                           "Indexed {} symbols, {} calls, {} imports",
                           "No callers found for: {}">>)
        on == IF ~openOk THEN "none"
              ELSE IF ~IndexPopulated(calls) THEN "empty"
              ELSE IF hitFast = <<>> THEN "no_match" ELSE "match"
    IN  /\ cgRet' = [r EXCEPT !.on = on]
        /\ cgInv' = IF openOk /\ ~IndexPopulated(calls) THEN inv2 ELSE cgInv
        /\ cgStore' = IF openOk /\ ~IndexPopulated(calls) THEN store2 ELSE cgStore
        /\ obsEmpty' = IF on = "empty" THEN Some(Outcome(r)) ELSE obsEmpty
        /\ UNCHANGED <<cgClock, cgFs>>
        /\ UNCHANGED nonCG

CmdCallersAny ==
    \E symbol \in QueryNames, json \in BOOLEAN, openOk \in BOOLEAN :
        CmdCallers(symbol, json, openOk)

\* mutant: the symbol index is never taken to be empty
SymbolIndexNeverEmpty(symbol_count) == FALSE

\* cmd_find_symbols, line 30
SymbolIndexEmpty(symbol_count) == symbol_count = 0

\* cmd_find_symbols(name, root, kind = None, fuzzy = false, limit, json)
CmdFindSymbols(name, json, openOk) ==
    LET symbol_count == CallGraphStats(cgStore)[1]
        hit == FindSymbols(cgStore, name, None, 10)
        r == IF ~openOk THEN Failed("find_symbols", json, "none", <<"Failed to open index: {}">>)
             ELSE IF SymbolIndexEmpty(symbol_count)
             THEN Failed("find_symbols", json, "none",
                         <<"Symbol index empty. Run: moss reindex --call-graph">>)
             ELSE IF hit = {}
             THEN IF json THEN Failed("find_symbols", json, "[]", <<>>)
                  ELSE Failed("find_symbols", json, "none", <<"No symbols found matching: {}">>)
             ELSE Printed("find_symbols", json, <<>>)
        on == IF ~openOk THEN "none"
              ELSE IF symbol_count = 0 THEN "empty"
              ELSE IF hit = {} THEN "no_match" ELSE "match"
    IN  /\ cgRet' = [r EXCEPT !.on = on]
        /\ obsEmpty' = IF on = "empty" THEN Some(Outcome(r)) ELSE obsEmpty
        /\ UNCHANGED <<cgClock, cgFs, cgInv, cgStore>>
        /\ UNCHANGED nonCG

CmdFindSymbolsAny ==
    \E name \in QueryNames, json \in BOOLEAN, openOk \in BOOLEAN :
        CmdFindSymbols(name, json, openOk)

NextCG ==
    \/ CgTick
    \/ EditFile
    \/ CreateFile
    \/ CmdReindex
    \/ IncrementalCallGraphRefreshCall
    \/ CmdCallersAny
    \/ CmdFindSymbolsAny

\* ------------------------------------------------------------ FileIndex: Init

FreshFs ==
    [p \in Paths |->
        IF p \in {".", "src", "src/a.py"} THEN Some(0) ELSE None]

\* a project whose store was written by a build with another schema version
OtherSchemaFs ==
    [p \in Paths |->
        IF p \in {".", "src", "src/a.py", ".moss", ".moss/index.sqlite"}
        THEN Some(0) ELSE None]

OtherSchemaDb ==
    [files  |-> {[path |-> "src", is_dir |-> TRUE, mtime |-> 0],
                 [path |-> "old.py", is_dir |-> FALSE, mtime |-> 0]},
     schema |-> Some(ToDecimal(SCHEMA_VERSION + 1)),
     last   |-> Some(ToDecimal(0))]

GitignoreChoices == {{}, {".moss", ".moss/index.sqlite"}}

InitFI ==
    /\ clock = 0
    /\ \/ fs = FreshFs /\ db = EmptyDb
       \/ fs = OtherSchemaFs /\ db = OtherSchemaDb
    /\ gitignore \in GitignoreChoices
    /\ work = EmptyDb
    /\ pc = "closed"
    /\ pos = 1
    /\ count = 0
    /\ ret = NoRet
    /\ lastOk = None
    /\ chain = FALSE
    /\ clean = FALSE

\* --------------------------------------------------------- the environment

Tick ==
    /\ clock < MaxClock
    /\ clock' = clock + 1
    /\ UNCHANGED <<fs, gitignore, db, work, pc, pos, count, ret, lastOk, chain, clean>>
    /\ UNCHANGED nonFI

\* someone other than the index modifies an existing entry of the project
Touch(p) ==
    /\ Exists(fs, p)
    /\ fs[p] # Some(clock)
    /\ fs' = [fs EXCEPT ![p] = Some(clock)]
    /\ clean' = FALSE
    /\ chain' = FALSE
    /\ UNCHANGED <<clock, gitignore, db, work, pc, pos, count, ret, lastOk>>
    /\ UNCHANGED nonFI

TouchSrc == Touch("src")
TouchRoot == Touch(Root)

\* someone creates the directory lib under the root
CreateLib ==
    /\ ~Exists(fs, "lib")
    /\ fs' = [fs EXCEPT !["lib"] = Some(clock), ![Root] = Some(clock)]
    /\ clean' = FALSE
    /\ chain' = FALSE
    /\ UNCHANGED <<clock, gitignore, db, work, pc, pos, count, ret, lastOk>>
    /\ UNCHANGED nonFI

\* ----------------------------------------------------- FileIndex: actions

\* create_dir_all(.moss) and Connection::open create what is missing
FsAfterOpen(f) ==
    [p \in Paths |->
        IF p \in {MossDir, DbPath} /\ ~Exists(f, p) THEN Some(clock)
        ELSE IF p = Root /\ ~Exists(f, MossDir) THEN Some(clock)
        ELSE f[p]]

\* FileIndex::open; `outcome` is the statement that fails, if any
Open(outcome) ==
    /\ pc \in {"closed", "idle"}
    /\ lastOk' = None
    /\ chain' = FALSE
    /\ clean' = clean
    /\ IF outcome = "fail_open"
       THEN \* Connection::open or the schema batch fails
            /\ UNCHANGED <<db, pc>>
            /\ fs' = [fs EXCEPT ![MossDir] = FsAfterOpen(fs)[MossDir],
                                ![Root] = FsAfterOpen(fs)[Root]]
            /\ ret' = [NoRet EXCEPT !.op = "open", !.ok = FALSE]
       ELSE IF SchemaMatches(db)
       THEN /\ outcome = "ok"
            /\ UNCHANGED db
            /\ fs' = FsAfterOpen(fs)
            /\ pc' = "idle"
            /\ ret' = [NoRet EXCEPT !.op = "open"]
       ELSE CASE outcome = "fail_delete" ->
                   /\ UNCHANGED <<db, pc>>
                   /\ fs' = FsAfterOpen(fs)
                   /\ ret' = [NoRet EXCEPT !.op = "open", !.ok = FALSE]
              [] outcome = "fail_insert" ->
                   /\ db' = [db EXCEPT !.files = {}]
                   /\ fs' = WroteDb(FsAfterOpen(fs))
                   /\ UNCHANGED pc
                   /\ ret' = [NoRet EXCEPT !.op = "open", !.ok = FALSE]
              [] OTHER ->
                   /\ db' = [db EXCEPT !.files = {},
                                       !.schema = Some(ToDecimal(SCHEMA_VERSION))]
                   /\ fs' = WroteDb(FsAfterOpen(fs))
                   /\ pc' = "idle"
                   /\ ret' = [NoRet EXCEPT !.op = "open"]
    /\ UNCHANGED <<clock, gitignore, work, pos, count>>
    /\ UNCHANGED nonFI

OpenStore == \E outcome \in {"ok", "fail_open", "fail_delete", "fail_insert"} :
    Open(outcome)

NeedsRefreshCall ==
    /\ pc = "idle"
    /\ ret' = [NoRet EXCEPT !.op = "needs_refresh", !.flag = NeedsRefresh(db, fs)]
    /\ UNCHANGED <<clock, fs, gitignore, db, work, pc, pos, count, lastOk, chain, clean>>
    /\ UNCHANGED nonFI

\* refresh, lines 119-130: conn.transaction() and DELETE FROM files
RefreshBegin ==
    /\ pc = "idle"
    /\ work' = [db EXCEPT !.files = {}]
    /\ db' = AfterStatement(db, work')
    /\ pc' = "walking"
    /\ pos' = 1
    /\ count' = 0
    /\ chain' = (clean /\ lastOk # None)
    /\ clean' = TRUE
    /\ UNCHANGED <<clock, fs, gitignore, ret, lastOk>>
    /\ UNCHANGED nonFI

\* refresh, lines 131-154: one entry of the walker
RefreshWalk ==
    /\ pc = "walking"
    /\ pos <= Len(WalkOrder)
    /\ LET p == WalkOrder[pos] IN
         IF Walked(fs, gitignore, p) /\ RelStr(p) # ""
         THEN /\ work' = [work EXCEPT !.files = @ \cup {Row(p, fs)}]
              /\ count' = count + 1
         ELSE UNCHANGED <<work, count>>
    /\ db' = AfterStatement(db, work')
    /\ pos' = pos + 1
    /\ UNCHANGED <<clock, fs, gitignore, pc, ret, lastOk, chain, clean>>
    /\ UNCHANGED nonFI

\* refresh: a statement of the transaction (or the commit) returns an error,
\* the `?` returns it and the transaction is dropped
RefreshFail ==
    /\ pc = "walking"
    /\ db' = OnErrorStore(db, work)
    /\ work' = EmptyDb
    /\ pos' = 1
    /\ pc' = "idle"
    /\ ret' = [NoRet EXCEPT !.op = "refresh", !.ok = FALSE]
    /\ lastOk' = None
    /\ chain' = FALSE
    /\ UNCHANGED <<clock, fs, gitignore, count, clean>>
    /\ UNCHANGED nonFI

\* refresh, lines 156-167: last_indexed, commit, Ok(count)
RefreshCommit ==
    /\ pc = "walking"
    /\ pos > Len(WalkOrder)
    /\ db' = [work EXCEPT !.last = Some(ToDecimal(clock))]
    /\ fs' = WroteDb(fs)
    /\ work' = EmptyDb
    /\ pos' = 1
    /\ pc' = "idle"
    /\ ret' = [NoRet EXCEPT !.op = "refresh"]
    /\ lastOk' = Some([count |-> count, files |-> work.files])
    /\ UNCHANGED <<clock, gitignore, count, chain, clean>>
    /\ UNCHANGED nonFI

IdleFI ==
    /\ clock = 0
    /\ fs = FreshFs
    /\ db = EmptyDb
    /\ gitignore = {}
    /\ work = EmptyDb
    /\ pc = "closed"
    /\ pos = 1
    /\ count = 0
    /\ ret = NoRet
    /\ lastOk = None
    /\ chain = FALSE
    /\ clean = FALSE

NextFI ==
    \/ Tick
    \/ TouchSrc
    \/ TouchRoot
    \/ CreateLib
    \/ OpenStore
    \/ NeedsRefreshCall
    \/ RefreshBegin
    \/ RefreshWalk
    \/ RefreshFail
    \/ RefreshCommit

\* ------------------------------------------- FileIndex: find_by_name, find_by_stem

\* characters compared by LIKE: as they are where the linked SQLite compares case, with
\* ASCII letters folded otherwise (SQLite's default)
LikeCharEq(a, b, case_sensitive) ==
    IF case_sensitive THEN a = b ELSE LowerChar(a) = LowerChar(b)

\* text LIKE pattern, from position i of the pattern and j of the text on: '%' stands
\* for any run of characters, '_' for any one character
RECURSIVE LikeFrom(_, _, _, _, _)
LikeFrom(pattern, text, i, j, case_sensitive) ==
    IF i > Len(pattern) THEN j > Len(text)
    ELSE IF pattern[i] = "%"
         THEN \E k \in j..(Len(text) + 1) : LikeFrom(pattern, text, i + 1, k, case_sensitive)
    ELSE IF j > Len(text) THEN FALSE
    ELSE IF pattern[i] = "_" THEN LikeFrom(pattern, text, i + 1, j + 1, case_sensitive)
    ELSE /\ LikeCharEq(pattern[i], text[j], case_sensitive)
         /\ LikeFrom(pattern, text, i + 1, j + 1, case_sensitive)

\* path LIKE ?1
Like(text, pattern, case_sensitive) == LikeFrom(pattern, text, 1, 1, case_sensitive)

\* format!("%/{}", name)
NamePattern(name) == <<"%", "/">> \o name

\* format!("%/{}%", stem)
StemPattern(stem) == <<"%", "/">> \o stem \o <<"%">>

\* FileIndex::find_by_name: SELECT ... WHERE path LIKE ?1 OR path = ?2
FindByName(d, name) ==
    {f \in d.files : Like(f.path, NamePattern(name), d.case_sensitive_like) \/ f.path = name}

\* FileIndex::find_by_stem: SELECT ... WHERE path LIKE ?1
FindByStem(d, stem) ==
    {f \in d.files : Like(f.path, StemPattern(stem), d.case_sensitive_like)}

\* the files tables a refresh has stored
FilesMoss ==
    {[path |-> <<"s", "r", "c">>, is_dir |-> TRUE, mtime |-> 0],
     [path |-> <<"s", "r", "c", "/", "m", "o", "s", "s">>, is_dir |-> TRUE, mtime |-> 0],
     [path |-> <<"s", "r", "c", "/", "m", "o", "s", "s", "/", "c", "l", "i", ".", "p", "y">>, is_dir |-> FALSE, mtime |-> 0],
     [path |-> <<"s", "r", "c", "/", "m", "o", "s", "s", "/", "d", "w", "i", "m", ".", "p", "y">>, is_dir |-> FALSE, mtime |-> 0]}

FilesTest ==
    {[path |-> <<"s", "r", "c">>, is_dir |-> TRUE, mtime |-> 0],
     [path |-> <<"s", "r", "c", "/", "t", "e", "s", "t", ".", "p", "y">>, is_dir |-> FALSE, mtime |-> 0],
     [path |-> <<"s", "r", "c", "/", "t", "e", "s", "t", ".", "r", "s">>, is_dir |-> FALSE, mtime |-> 0],
     [path |-> <<"t", "e", "s", "t", ".", "p", "y">>, is_dir |-> FALSE, mtime |-> 0],
     [path |-> <<"s", "r", "c", "/", "T", "E", "S", "T", ".", "m", "d">>, is_dir |-> FALSE, mtime |-> 0],
     [path |-> <<"s", "r", "c", "/", "t", "e", "s", "t", "_", "m", "e", ".", "p", "y">>, is_dir |-> FALSE, mtime |-> 0],
     [path |-> <<"s", "r", "c", "/", "t", "e", "s", "t", "x", "m", "e", ".", "p", "y">>, is_dir |-> FALSE, mtime |-> 0]}

FilesDeep ==
    {[path |-> <<"t", "e", "s", "t">>, is_dir |-> TRUE, mtime |-> 0],
     [path |-> <<"t", "e", "s", "t", "/", "t", "e", "s", "t", ".", "p", "y">>, is_dir |-> FALSE, mtime |-> 0],
     [path |-> <<"t", "e", "s", "t", "/", "d", "w", "i", "m">>, is_dir |-> FALSE, mtime |-> 0],
     [path |-> <<"l", "i", "b">>, is_dir |-> TRUE, mtime |-> 0],
     [path |-> <<"l", "i", "b", "/", "m", "y", "t", "e", "s", "t", ".", "p", "y">>, is_dir |-> FALSE, mtime |-> 0]}

FindNames ==
    {<<"c", "l", "i", ".", "p", "y">>,
     <<"t", "e", "s", "t", ".", "p", "y">>,
     <<"t", "e", "s", "t", ".", "m", "d">>,
     <<"t", "e", "s", "t", "_", "m", "e", ".", "p", "y">>,
     <<"s", "r", "c", "/", "t", "e", "s", "t", ".", "p", "y">>,
     <<"s", "r", "c">>,
     <<"t", "%", ".", "p", "y">>,
     <<"d", "w", "i", "m">>,
     <<"z", "z">>}

FindStems ==
    {<<"t", "e", "s", "t">>,
     <<"c", "l", "i">>,
     <<"d", "w", "i", "m">>,
     <<"t", "e", "s", "t", "_", "m", "e">>,
     <<"s", "r", "c">>,
     <<"t">>,
     <<"z", "z">>}

\* an open FileIndex after a refresh; case_sensitive_like is how the linked SQLite
\* compares letters in LIKE
InitFind ==
    /\ clock = 0
    /\ fs = FreshFs
    /\ \E files \in {FilesMoss, FilesTest, FilesDeep}, case_sensitive \in BOOLEAN :
         db = [files |-> files, schema |-> Some(ToDecimal(SCHEMA_VERSION)),
               last |-> Some(ToDecimal(0)), case_sensitive_like |-> case_sensitive]
    /\ gitignore = {}
    /\ work = EmptyDb
    /\ pc = "idle"
    /\ pos = 1
    /\ count = 0
    /\ ret = NoRet
    /\ lastOk = None
    /\ chain = FALSE
    /\ clean = FALSE

\* find_by_name; `ok` is whether prepare and query_map return Ok
FindByNameCall ==
    \E name \in FindNames, ok \in BOOLEAN :
        /\ pc = "idle"
        /\ ret' = [op |-> "find_by_name", ok |-> ok, flag |-> FALSE, arg |-> name,
                   files |-> IF ok THEN FindByName(db, name) ELSE {}]
        /\ UNCHANGED <<clock, fs, gitignore, db, work, pc, pos, count, lastOk, chain, clean>>
        /\ UNCHANGED nonFI

\* find_by_stem
FindByStemCall ==
    \E stem \in FindStems, ok \in BOOLEAN :
        /\ pc = "idle"
        /\ ret' = [op |-> "find_by_stem", ok |-> ok, flag |-> FALSE, arg |-> stem,
                   files |-> IF ok THEN FindByStem(db, stem) ELSE {}]
        /\ UNCHANGED <<clock, fs, gitignore, db, work, pc, pos, count, lastOk, chain, clean>>
        /\ UNCHANGED nonFI

NextFind ==
    \/ FindByNameCall
    \/ FindByStemCall

\* a project and its file index; the other components unused
InitSpecFI == InitFI /\ IdleCG /\ IdlePkg /\ IdleVer /\ IdleRest /\ IdleExt

SpecFI == InitSpecFI /\ [][NextFI]_vars

\* a project and its call graph
InitSpecCG == InitCG /\ IdleFI /\ IdlePkg /\ IdleVer /\ IdleRest /\ IdleExt

SpecCG == InitSpecCG /\ [][NextCG]_vars

\* a new package index
InitSpecPkg == InitPkg /\ IdleFI /\ IdleCG /\ IdleVer /\ IdleRest /\ IdleExt

SpecPkg == InitSpecPkg /\ [][NextPkg]_vars

SpecSym == InitSpecPkg /\ [][NextSym]_vars

\* one in_range call
InitSpecVer == InitVer /\ IdleFI /\ IdleCG /\ IdlePkg /\ IdleRest /\ IdleExt

SpecVer == InitSpecVer /\ [][NextVer]_vars

\* cmd_index_packages and delete_package as a writer, beside a reader
InitSpecRun == InitRun /\ IdleFI /\ IdleCG /\ IdleVer /\ IdlePr /\ IdleSp /\ IdleExt

SpecRun == InitSpecRun /\ [][NextRun]_vars

\* path_resolve::resolve
InitSpecPr == InitPr /\ IdleFI /\ IdleCG /\ IdlePkg /\ IdleVer /\ IdleRun /\ IdleSp /\ IdleExt

SpecPr == InitSpecPr /\ [][NextPr]_vars

\* the read-only queries of an open FileIndex
InitSpecFind == InitFind /\ IdleCG /\ IdlePkg /\ IdleVer /\ IdleRest /\ IdleExt

SpecFind == InitSpecFind /\ [][NextFind]_vars

\* SymbolParser::parse_file
InitSpecParse == InitParse /\ IdleFI /\ IdleCG /\ IdlePkg /\ IdleVer /\ IdleRun /\ IdlePr /\ IdleExt

SpecParse == InitSpecParse /\ [][NextParse]_vars

\* SymbolParser::find_calls_in_source
InitSpecCalls == InitCalls /\ IdleFI /\ IdleCG /\ IdlePkg /\ IdleVer /\ IdleRun /\ IdlePr /\ IdleExt

SpecCalls == InitSpecCalls /\ [][NextCalls]_vars

\* ------------------------------------------- the components with one variable

IdleAll == IdleFI /\ IdleCG /\ IdlePkg /\ IdleVer /\ IdleRest

\* ------------------------------------------------- an indexing run, per file
\* The engine takes the files one after the other: it reads the file, picks
\* the capability provider by extension, parses, walks the tree with the
\* provider's kind lists and persists the symbols.

MaxFiles == 2

Extensions == {"go", "vue", "txt"}

\* support_for_extension: the provider of an extension, None when there is none
SupportForExtension(ext) ==
    IF ext \in {"go", "vue"} THEN Some(ext) ELSE None

\* the kind lists of a provider whose body is todo!(): calling one panics
TodoLists(lang) ==
    IF lang = "vue"
    THEN {"import_kinds", "public_symbol_kinds", "scope_creating_kinds",
          "control_flow_kinds", "complexity_nodes", "nesting_nodes"}
    ELSE {}

\* the lists the walk asks the provider for: function, container, type, import
WalkLists == {"container_kinds", "function_kinds", "type_kinds", "import_kinds"}

IdxFiles == [ext : Extensions, readable : BOOLEAN, parses : BOOLEAN]

IdxRuns ==
    UNION { [1..n -> IdxFiles] : n \in 1..MaxFiles }

InitIdx ==
    idx \in { [files |-> fl,
               state |-> [i \in 1..Len(fl) |-> "Unparsed"],
               pos |-> 1,
               pc |-> "running",
               symbols |-> {}] : fl \in IdxRuns }

IdxCurrent ==
    /\ idx # <<>>
    /\ idx.pc = "running"
    /\ idx.pos <= Len(idx.files)

\* read_to_string and parse: a file that cannot be read, has no provider or
\* is rejected by the parser yields no symbols, and the loop goes on
IdxParse ==
    /\ IdxCurrent
    /\ idx.state[idx.pos] = "Unparsed"
    /\ LET f == idx.files[idx.pos]
       IN IF f.readable /\ SupportForExtension(f.ext) # None /\ f.parses
          THEN idx' = [idx EXCEPT !.state[idx.pos] = "Parsed"]
          ELSE idx' = [idx EXCEPT !.state[idx.pos] = "Failed", !.pos = @ + 1]
    /\ UNCHANGED nonIdx

\* the walk: it calls the provider's kind lists; a todo!() among them panics,
\* and nothing on the way up catches the panic
IdxExtract ==
    /\ IdxCurrent
    /\ idx.state[idx.pos] = "Parsed"
    /\ LET lang == TheVal(SupportForExtension(idx.files[idx.pos].ext))
       IN IF WalkLists \cap TodoLists(lang) # {}
          THEN idx' = [idx EXCEPT !.pc = "panicked"]
          ELSE idx' = [idx EXCEPT !.state[idx.pos] = "Extracted"]
    /\ UNCHANGED nonIdx

IdxPersist ==
    /\ IdxCurrent
    /\ idx.state[idx.pos] = "Extracted"
    /\ idx' = [idx EXCEPT !.state[idx.pos] = "Persisted",
                          !.symbols = @ \cup {idx.pos},
                          !.pos = @ + 1]
    /\ UNCHANGED nonIdx

IdxEnd ==
    /\ idx # <<>>
    /\ idx.pc = "running"
    /\ idx.pos > Len(idx.files)
    /\ idx' = [idx EXCEPT !.pc = "done"]
    /\ UNCHANGED nonIdx

NextIdx == IdxParse \/ IdxExtract \/ IdxPersist \/ IdxEnd

InitSpecIdx == InitIdx /\ IdleAll /\ IdleNonIdx

SpecIdx == InitSpecIdx /\ [][NextIdx]_vars

\* ------------------------------------------------------------- FlatContext

MaxItems == 2
MaxAdds == 4

FcKeys == {"a", "b", "c"}
FcValues == {"1"}

\* FlatContext::new
NewFlatContext(max_items) ==
    [items |-> <<>>, max_items |-> max_items, added |-> <<>>]

InitFc ==
    fc \in { NewFlatContext(n) : n \in 0..MaxItems }

\* the mutation of add: the item just pushed is the one removed
AddEvictNewest(items, max_items, item) ==
    LET pushed == Append(items, item)
    IN IF Len(pushed) > max_items
       THEN SubSeq(pushed, 1, Len(pushed) - 1)
       ELSE pushed

\* add: push, then remove(0) when the length exceeds max_items
Add(items, max_items, item) ==
    LET pushed == Append(items, item)
    IN IF Len(pushed) > max_items THEN Tail(pushed) ELSE pushed

FcAdd(key, value) ==
    /\ fc # <<>>
    /\ Len(fc.added) < MaxAdds
    /\ fc' = [fc EXCEPT !.items = Add(fc.items, fc.max_items, <<key, value>>),
                        !.added = Append(@, <<key, value>>)]
    /\ UNCHANGED nonFc

FcAddAny == \E k \in FcKeys, v \in FcValues : FcAdd(k, v)

\* child: a new context with the same max_items
FcChild ==
    /\ fc # <<>>
    /\ fc.added # <<>>
    /\ fc' = NewFlatContext(fc.max_items)
    /\ UNCHANGED nonFc

NextFc == FcAddAny \/ FcChild

InitSpecFc == InitFc /\ IdleAll /\ IdleNonFc

SpecFc == InitSpecFc /\ [][NextFc]_vars

\* ------------------------------------------------------------ generate_tree
\* An entry is [path, is_dir], its path the sequence of names below the
\* root. The tree of nodes is a function from the paths of the nodes to
\* their is_dir flag.

MaxPathLen == 3
MaxMaxDepth == 2

TreeNames == {"a", "src"}

TreePaths == UNION { [1..n -> TreeNames] : n \in 1..MaxPathLen }

IsProperPrefix(p, q) == Len(p) < Len(q) /\ SubSeq(q, 1, Len(p)) = p

ProperPrefixes(p) == { SubSeq(p, 1, n) : n \in 1..(Len(p) - 1) }

\* the entries of a directory tree whose leaves are given: the leaves and,
\* as directories, everything above them
EntriesOf(leaves) ==
    leaves \cup { [path |-> q, is_dir |-> TRUE] :
                    q \in UNION { ProperPrefixes(l.path) : l \in leaves } }

\* no two entries of one path, no file above another entry
WellFormed(leaves) ==
    \A l \in leaves : \A m \in leaves :
        /\ (l.path = m.path => l = m)
        /\ (IsProperPrefix(l.path, m.path) => l.is_dir)

TreeLeaves == [path : TreePaths, is_dir : BOOLEAN]

\* the trees of one or two leaves
TreeInputs ==
    { EntriesOf(ls) : ls \in { s \in { {l, m} : l \in TreeLeaves, m \in TreeLeaves } :
                                  WellFormed(s) } }

TreeOptions ==
    [max_depth : {None} \cup { Some(d) : d \in 0..MaxMaxDepth },
     collapse_single : BOOLEAN,
     boilerplate_dirs : {{}, {"src"}}]

SetNode(nodes, p, is_dir) ==
    [q \in DOMAIN nodes \cup {p} |-> IF q = p THEN is_dir ELSE nodes[q]]

\* TreeNode::add_path
RECURSIVE AddPath(_, _, _, _, _, _, _)
AddPath(nodes, at, parts, is_dir, max_depth, boilerplate_dirs, effective_depth) ==
    IF parts = <<>> THEN nodes
    ELSE LET name == Head(parts)
             blocked == /\ max_depth # None
                        /\ effective_depth >= TheVal(max_depth)
                        /\ name \notin boilerplate_dirs
             child == Append(at, name)
             next_depth == IF name \in boilerplate_dirs
                           THEN effective_depth
                           ELSE effective_depth + 1
         IN IF blocked THEN nodes
            ELSE IF Len(parts) = 1 THEN SetNode(nodes, child, is_dir)
            ELSE AddPath(SetNode(nodes, child, TRUE), child, Tail(parts),
                         is_dir, max_depth, boilerplate_dirs, next_depth)

\* the loop over the walker's entries
RECURSIVE AddAll(_, _, _)
AddAll(nodes, entries, options) ==
    IF entries = {} THEN nodes
    ELSE LET e == CHOOSE x \in entries : TRUE
         IN AddAll(AddPath(nodes, <<>>, e.path, e.is_dir, options.max_depth,
                           options.boilerplate_dirs, 0),
                   entries \ {e}, options)

ChildrenOfNode(nodes, at) ==
    { p \in DOMAIN nodes : Len(p) = Len(at) + 1 /\ SubSeq(p, 1, Len(at)) = at }

\* collect_single_chain: the nodes of the chain that starts at p, p first
RECURSIVE CollectSingleChain(_, _)
CollectSingleChain(nodes, p) ==
    LET cs == ChildrenOfNode(nodes, p)
    IN IF Cardinality(cs) # 1 THEN <<p>>
       ELSE LET c == CHOOSE x \in cs : TRUE
            IN IF ~nodes[c] THEN <<p>>
               ELSE <<p>> \o CollectSingleChain(nodes, c)

\* render_tree: the lines below the node at; a line is the chain of the
\* nodes it names
RECURSIVE RenderTree(_, _, _)
RenderTree(nodes, at, options) ==
    UNION { LET found == IF options.collapse_single /\ nodes[c]
                         THEN CollectSingleChain(nodes, c)
                         ELSE <<c>>
                effective_child == found[Len(found)]
            IN {found} \cup
               (IF nodes[effective_child] /\ ChildrenOfNode(nodes, effective_child) # {}
                THEN RenderTree(nodes, effective_child, options)
                ELSE {})
          : c \in ChildrenOfNode(nodes, at) }

\* generate_tree
GenerateTree(entries, options) ==
    LET nodes == AddAll(<<>> :> TRUE, entries, options)
    IN [lines |-> RenderTree(nodes, <<>>, options),
        file_count |-> Cardinality({ e \in entries : ~e.is_dir }),
        dir_count |-> Cardinality({ e \in entries : e.is_dir })]

InitTr ==
    tr \in [entries : TreeInputs, options : TreeOptions, out : {None}]

GenerateTreeCall ==
    /\ tr # <<>>
    /\ tr.out = None
    /\ tr' = [tr EXCEPT !.out = Some(GenerateTree(tr.entries, tr.options))]
    /\ UNCHANGED nonTr

NextTr == GenerateTreeCall

InitSpecTr == InitTr /\ IdleAll /\ IdleNonTr

SpecTr == InitSpecTr /\ [][NextTr]_vars

\* -------------------------------------------------------- resolve_go_import
\* Strings are sequences of characters; a path is the sequence of its
\* components, which is what PathBuf compares.

MaxModuleLen == 2
MaxImportLen == 4

GoChars == {"m", "x", "/"}

GoStrings(n) == UNION { [1..k -> GoChars] : k \in 0..n }

\* the module paths a go.mod can declare: not empty, no empty element
GoModulePaths ==
    { s \in GoStrings(MaxModuleLen) :
        /\ s # <<>>
        /\ s[1] # "/"
        /\ s[Len(s)] # "/"
        /\ \A i \in 1..(Len(s) - 1) : ~(s[i] = "/" /\ s[i + 1] = "/") }

GoRoot == <<"fake", "root">>

\* str::starts_with
StrStartsWith(s, prefix) ==
    Len(prefix) <= Len(s) /\ SubSeq(s, 1, Len(prefix)) = prefix

\* str::strip_prefix, for a string that starts with the prefix
StripPrefix(s, prefix) == SubSeq(s, Len(prefix) + 1, Len(s))

\* str::trim_start_matches('/')
RECURSIVE TrimStartSlashes(_)
TrimStartSlashes(s) ==
    IF s # <<>> /\ s[1] = "/" THEN TrimStartSlashes(Tail(s)) ELSE s

\* the components of a relative path given as a string
RECURSIVE PathComponents(_, _)
PathComponents(s, cur) ==
    IF s = <<>> THEN (IF cur = <<>> THEN <<>> ELSE <<cur>>)
    ELSE IF s[1] = "/"
         THEN (IF cur = <<>> THEN <<>> ELSE <<cur>>) \o PathComponents(Tail(s), <<>>)
         ELSE PathComponents(Tail(s), Append(cur, s[1]))

\* Path::join with a relative path
PathJoin(root, rel) == root \o PathComponents(rel, <<>>)

\* resolve_go_import
ResolveGoImport(import_path, module_path, project_root) ==
    IF ~StrStartsWith(import_path, module_path) THEN None
    ELSE LET rel_path == TrimStartSlashes(StripPrefix(import_path, module_path))
         IN IF rel_path = <<>>
            THEN Some(project_root)
            ELSE Some(PathJoin(project_root, rel_path))

InitGi ==
    gi \in [import_path : GoStrings(MaxImportLen),
            module : GoModulePaths,
            out : {<<>>}]

ResolveGoImportCall ==
    /\ gi # <<>>
    /\ gi.out = <<>>
    /\ gi' = [gi EXCEPT !.out = <<ResolveGoImport(gi.import_path, gi.module, GoRoot)>>]
    /\ UNCHANGED nonGi

NextGi == ResolveGoImportCall

InitSpecGi == InitGi /\ IdleAll /\ IdleNonGi

SpecGi == InitSpecGi /\ [][NextGi]_vars

\* ------------------------------------------------------------------ cmd_path
\* One process runs cmd_path and then exits; the daemon is another process.
\* pc is the position of the main thread, thread that of the thread cmd_path
\* spawns. A socket file without a daemon behind it is a stale socket.

MaxCmds == 2

\* what the daemon would answer to the query, and what resolve() returns
DaemonMatches == {<<>>, <<"from_daemon">>}
DirectMatches == {<<>>, <<"from_resolve">>}

NoCmd ==
    [pc |-> "none", branch |-> "none", thread |-> "none", resolved |-> FALSE,
     dm |-> <<>>, rm |-> <<>>, answer |-> None, code |-> 0]

InitCp ==
    \E sock \in BOOLEAN, daemon \in {"up", "down"} :
        /\ (daemon = "up" => sock)
        /\ cp = [sock |-> sock, daemon |-> daemon, cmds |-> 0, cmd |-> NoCmd]

\* DaemonClient::is_available
IsAvailable == cp.sock

\* the exit code of cmd_path for the matches it prints
CodeFor(matches) == IF matches = <<>> THEN 1 ELSE 0

\* cmd_path up to the direct resolution: the daemon is asked when its socket
\* exists; without socket a thread is spawned that starts the daemon
CmdPathBegin(dm, rm, queryOk) ==
    /\ cp # <<>>
    /\ cp.cmd.pc \in {"none", "exited"}
    /\ cp.cmds < MaxCmds
    /\ (queryOk => cp.daemon = "up")
    /\ LET c == [NoCmd EXCEPT !.dm = dm, !.rm = rm]
       IN cp' = [cp EXCEPT
                   !.cmds = @ + 1,
                   !.cmd = IF IsAvailable
                           THEN IF queryOk
                                THEN [c EXCEPT !.pc = "returned", !.branch = "daemon",
                                               !.answer = Some(dm), !.code = CodeFor(dm)]
                                ELSE [c EXCEPT !.pc = "direct", !.branch = "fallback"]
                           ELSE [c EXCEPT !.pc = "direct", !.branch = "absent",
                                          !.thread = "spawned"]]
    /\ UNCHANGED nonCp

CmdPathBeginAny ==
    \E dm \in DaemonMatches, rm \in DirectMatches, queryOk \in BOOLEAN :
        CmdPathBegin(dm, rm, queryOk)

\* cmd_path from the direct resolution to its return
CmdPathDirect ==
    /\ cp # <<>>
    /\ cp.cmd.pc = "direct"
    /\ cp' = [cp EXCEPT !.cmd = [@ EXCEPT !.pc = "returned", !.resolved = TRUE,
                                          !.answer = Some(cp.cmd.rm),
                                          !.code = CodeFor(cp.cmd.rm)]]
    /\ UNCHANGED nonCp

\* the spawned thread runs ensure_running: the daemon is started
EnsureRunning ==
    /\ cp # <<>>
    /\ cp.cmd.thread = "spawned"
    /\ cp' = [cp EXCEPT !.daemon = "up", !.sock = TRUE, !.cmd.thread = "done"]
    /\ UNCHANGED nonCp

\* main: std::process::exit(exit_code) ends the process and with it every
\* thread that is still running
MainExit ==
    /\ cp # <<>>
    /\ cp.cmd.pc = "returned"
    /\ cp' = [cp EXCEPT !.cmd = [@ EXCEPT !.pc = "exited",
                                          !.thread = IF @ = "spawned" THEN "killed" ELSE @]]
    /\ UNCHANGED nonCp

\* the daemon dies; its socket file stays
DaemonDies ==
    /\ cp # <<>>
    /\ cp.daemon = "up"
    /\ cp.cmd.pc \in {"none", "exited"}
    /\ cp' = [cp EXCEPT !.daemon = "down"]
    /\ UNCHANGED nonCp

NextCp == CmdPathBeginAny \/ CmdPathDirect \/ EnsureRunning \/ MainExit \/ DaemonDies

InitSpecCp == InitCp /\ IdleAll /\ IdleNonCp

SpecCp == InitSpecCp /\ [][NextCp]_vars

\* ------------------------------------------------------------ scope analysis
\* A Python source is a sequence of lines, one statement each: an assignment
\* to a name or a function definition with its parameters, at an indent. The
\* lines that follow a definition at a deeper indent are its body.

MaxSrcLines == 3

SrcNames == {"x", "f"}

SrcLine ==
    [kind : {"assign"}, name : SrcNames, params : {<<>>}, indent : 0..1]
    \cup [kind : {"def"}, name : SrcNames, params : {<<>>, <<"x">>}, indent : 0..1]

\* the indent grows by one, and only below a definition
SrcWellFormed(p) ==
    /\ p[1].indent = 0
    /\ \A i \in 1..(Len(p) - 1) :
          /\ p[i + 1].indent <= p[i].indent + 1
          /\ p[i + 1].indent = p[i].indent + 1 => p[i].kind = "def"

Sources ==
    { p \in UNION { [1..n -> SrcLine] : n \in 1..MaxSrcLines } : SrcWellFormed(p) }

\* the last line of the definition at line i
BodyEnd(p, i) ==
    LET deeper == { j \in i..Len(p) :
                      \A k \in (i + 1)..j : p[k].indent > p[i].indent }
    IN CHOOSE j \in deeper : \A k \in deeper : k <= j

\* the lines lo..hi that are statements of the given indent, in order
StmtLines(p, lo, hi, indent) ==
    SelectSeq([j \in 1..(hi - lo + 1) |-> lo + j - 1],
              LAMBDA j : p[j].indent = indent)

Binding(name, kind, line) == [name |-> name, kind |-> kind, line |-> line]

\* extract_python_params
ExtractPythonParams(p, i) ==
    [k \in 1..Len(p[i].params) |-> Binding(p[i].params[k], "parameter", i)]

\* build_python_scope, function_definition: the scope of the body is built
\* and the parameters are then pushed onto its bindings
ParamsPushed(params, body) == body \o params

\* build_python_scope for the statements of lines lo..end at the indent
RECURSIVE BuildPythonScope(_, _, _, _, _, _, _)
BuildPythonScope(p, kind, name, start, end, lo, indent) ==
    LET stmts == StmtLines(p, lo, end, indent)
        defs == SelectSeq(stmts, LAMBDA j : p[j].kind = "def")
    IN [kind |-> kind,
        name |-> name,
        start_line |-> start,
        end_line |-> end,
        bindings |-> [k \in 1..Len(stmts) |->
                        Binding(p[stmts[k]].name,
                                IF p[stmts[k]].kind = "def" THEN "function" ELSE "variable",
                                stmts[k])],
        children |-> [k \in 1..Len(defs) |->
                        LET j == defs[k]
                            func_scope == BuildPythonScope(p, "function", Some(p[j].name),
                                                           j, BodyEnd(p, j), j + 1, indent + 1)
                        IN [func_scope EXCEPT
                              !.bindings = ParamsPushed(ExtractPythonParams(p, j), @)]]]

\* analyze_python
AnalyzePython(p) == BuildPythonScope(p, "module", None, 1, Len(p), 1, 0)

\* collect_bindings_at
RECURSIVE CollectBindingsAt(_, _)
RECURSIVE CollectChildrenAt(_, _)
CollectBindingsAt(scope, line) ==
    IF line < scope.start_line \/ line > scope.end_line THEN <<>>
    ELSE SelectSeq(scope.bindings, LAMBDA b : b.line <= line)
           \o CollectChildrenAt(scope.children, line)

CollectChildrenAt(children, line) ==
    IF children = <<>> THEN <<>>
    ELSE CollectBindingsAt(Head(children), line) \o CollectChildrenAt(Tail(children), line)

\* find_definition
FindDefinition(root, name, line) ==
    LET named == SelectSeq(CollectBindingsAt(root, line), LAMBDA b : b.name = name)
    IN IF named = <<>> THEN None ELSE Some(named[Len(named)])

InitSr ==
    \E p \in Sources :
        sr \in [src : {p}, name : {"x"}, line : 1..Len(p), out : {<<>>}]

FindDefinitionCall ==
    /\ sr # <<>>
    /\ sr.out = <<>>
    /\ sr' = [sr EXCEPT !.out = <<FindDefinition(AnalyzePython(sr.src), sr.name, sr.line)>>]
    /\ UNCHANGED nonSr

NextSr == FindDefinitionCall

InitSpecSr == InitSr /\ IdleAll /\ IdleNonSr

SpecSr == InitSpecSr /\ [][NextSr]_vars

\* ------------------------------------------- cmd_index_packages, two processes
\* Each process opens its own connection to the one packages.db and runs
\* cmd_index_packages for RunLang. Every store call is one statement in autocommit
\* mode, so the statements of the processes interleave one by one.

MaxProcs == 2

Procs == 1 .. MaxProcs

NoProc == [pc |-> "idle", pos |-> 0, min_version |-> V(0, 0), max_version |-> None]

\* PackageIndex::open on a new cache directory, no process started
InitPp ==
    pp = [packages |-> {}, symbols |-> {}, faults |-> 0, proc |-> [p \in Procs |-> NoProc]]

\* where the loop of lines 370-388 stands after the package at pos is handled
AfterPackage(pr) ==
    IF pr.pos = Len(Discovered) THEN [pr EXCEPT !.pc = "done"]
    ELSE [pr EXCEPT !.pc = "is_indexed", !.pos = pr.pos + 1]

\* count_and_insert_symbols: the symbols table after the symbols are inserted in order
RECURSIVE CountAndInsertSymbols(_, _, _)
CountAndInsertSymbols(sy, pkg_id, syms) ==
    IF syms = <<>> THEN sy
    ELSE LET s == Head(syms)
         IN CountAndInsertSymbols(
                sy \cup {NewSymbol(sy, pkg_id, s.name, s.kind, s.signature, s.start_line)},
                pkg_id, Tail(syms))

\* cmd_index_packages of process p up to the loop over the discovered packages: open,
\* clear when asked, index_language_packages up to its loop
PpBegin(p, clear, version) ==
    /\ pp # <<>>
    /\ pp.proc[p].pc = "idle"
    /\ pp' = [pp EXCEPT
                !.packages = IF clear THEN Clear(@) ELSE @,
                !.symbols = IF clear THEN Clear(@) ELSE @,
                !.proc[p] = [pc |-> "is_indexed", pos |-> 1,
                             min_version |-> UnwrapOr(version, V(0, 0)),
                             max_version |-> IF Source.version_specific THEN version
                                             ELSE None]]
    /\ UNCHANGED nonPp

PpBeginAny ==
    \E p \in Procs, clear \in BOOLEAN, version \in RunVersions : PpBegin(p, clear, version)

\* lines 371-373 in process p: the is_indexed statement on the store as it is now
PpIsIndexed(p, outcome) ==
    /\ pp # <<>>
    /\ pp.proc[p].pc = "is_indexed"
    /\ LET pr == pp.proc[p]
           d == Discovered[pr.pos]
           skip == outcome = "ok" /\ IsIndexed(pp.packages, RunLang, d.name)
       IN pp' = [pp EXCEPT
                   !.faults = IF outcome = "err" THEN @ + 1 ELSE @,
                   !.proc[p] = IF skip THEN AfterPackage(pr)
                               ELSE [pr EXCEPT !.pc = "insert_package"]]
    /\ UNCHANGED nonPp

PpIsIndexedAny ==
    \E p \in Procs, outcome \in StoreOutcomes :
        /\ (outcome = "err" => pp # <<>> /\ pp.faults < MaxFaults)
        /\ PpIsIndexed(p, outcome)

\* lines 375-387 in process p: the insert_package statement, then the statements of
\* index_package_symbols, which write the symbols table only
PpInsertPackage(p, outcome) ==
    /\ pp # <<>>
    /\ pp.proc[p].pc = "insert_package"
    /\ LET pr == pp.proc[p]
           d == Discovered[pr.pos]
           row == NewPackage(pp.packages, RunLang, d.name, pr.min_version, pr.max_version, p)
       IN pp' = IF outcome = "err"
                THEN \* Err(_) => continue
                     [pp EXCEPT !.faults = @ + 1, !.proc[p] = AfterPackage(pr)]
                ELSE [pp EXCEPT
                        !.packages = @ \cup {row},
                        !.symbols = CountAndInsertSymbols(@, row.id, SymbolsToInsert(d)),
                        !.proc[p] = AfterPackage(pr)]
    /\ UNCHANGED nonPp

PpInsertPackageAny ==
    \E p \in Procs, outcome \in StoreOutcomes :
        /\ (outcome = "err" => pp # <<>> /\ pp.faults < MaxFaults)
        /\ PpInsertPackage(p, outcome)

NextPp ==
    \/ PpBeginAny
    \/ PpIsIndexedAny
    \/ PpInsertPackageAny

InitSpecPp == InitPp /\ IdleAll /\ IdleNonPp

SpecPp == InitSpecPp /\ [][NextPp]_vars

\* ------------------------------------------------------ FileIndex: claims

OpenOutcomes == {"ok", "fail_open", "fail_delete", "fail_insert"}

\* C1: refresh() replaces the files table atomically. A refresh that fails
\* returns an error and leaves the committed store (files rows and
\* last_indexed) exactly as it was; every step of a refresh leaves the
\* committed rows, which are what any reader gets, either untouched or,
\* at the commit, equal to the complete new inventory.
C1_RefreshAtomic ==
    [][ /\ RefreshFail => (db' = db /\ ~ret'.ok)
        /\ (RefreshBegin \/ RefreshWalk) => (AllFiles(db') = AllFiles(db) /\ db'.last = db.last)
        /\ RefreshCommit => /\ pos > Len(WalkOrder)
                            /\ AllFiles(db') = work.files
                            /\ Cardinality(AllFiles(db')) = count
                            /\ ret'.ok
      ]_vars

\* C1 witness: a refresh failed after it had inserted rows, on a store that
\* held an earlier inventory
C1_Witness ==
    /\ ret.op = "refresh"
    /\ ~ret.ok
    /\ count > 0
    /\ db.files # {}
    /\ db.last # None

\* C2: two refreshes in a row, the project changed by nobody but the index
\* itself in between, return the same count and store the same rows.
C2_RefreshIdempotent ==
    [][(RefreshCommit /\ chain) => lastOk' = lastOk]_vars

LexLeq(a, b) == a.major < b.major \/ (a.major = b.major /\ a.minor <= b.minor)

\* the stored records of a language and name whose range holds version v
\* (every record of the language and name when no version is asked for)
Candidates(language, name, version) ==
    {p \in packages :
        /\ p.language = language
        /\ p.name = name
        /\ \/ version = None
           \/ /\ LexLeq(V(p.min_major, p.min_minor), TheVal(version))
              /\ \/ p.max_major = None
                 \/ p.max_minor = None
                 \/ LexLeq(TheVal(version), V(TheVal(p.max_major), TheVal(p.max_minor)))}

\* C8: whatever was inserted and deleted so far, find_package(language, name,
\* Some(v)) is the earliest-inserted stored record of that language and name
\* whose range [min, max] holds v (no max: unbounded above), None when there
\* is no such record; with no version it is the earliest-inserted record of
\* the language and name.
C8_FindPackageEarliest ==
    \A language \in PkgLangs, name \in PkgNames,
       version \in {None} \cup {Some(v) : v \in QueryVersions} :
        LET r == FindPackage(packages, language, name, version)
            c == Candidates(language, name, version)
        IN  IF c = {} THEN r = None
            ELSE /\ r # None
                 /\ TheVal(r) \in c
                 /\ \A o \in c : TheVal(r).ins <= o.ins

\* find_package answered with a record although a later-inserted record of the
\* same language and name also holds a queried version, and a non-matching
\* earlier record has been skipped in some other query
C8_Witness ==
    /\ pkgRet.op = "find_package"
    /\ pkgRet.pkg # None
    /\ \E o \in packages, v \in QueryVersions :
         /\ o.ins > TheVal(pkgRet.pkg).ins
         /\ {o, TheVal(pkgRet.pkg)} \subseteq Candidates(o.language, o.name, Some(v))
    /\ \E o \in packages, v \in QueryVersions :
         /\ o.ins > TheVal(pkgRet.pkg).ins
         /\ Candidates(o.language, o.name, Some(v)) = {o}

\* C10: when delete_package(id) has returned Ok, no stored symbol has
\* package_id = id and get_symbols(id) is empty, and the packages and the
\* symbols of every other id are the ones stored before.
C10_DeletePackage ==
    [][\A id \in PkgIds :
          DeletePackage(id, "ok") =>
              /\ \A r \in symbols' : r.package_id # id
              /\ GetSymbols(symbols', id) = <<>>
              /\ {p \in packages' : p.id # id} = {p \in packages : p.id # id}
              /\ {r \in symbols' : r.package_id # id} = {r \in symbols : r.package_id # id}
              /\ \A p \in packages' : p.id # id]_vars

\* a delete removed symbols of its package and left another package and
\* another package's symbol in place
C10_Witness ==
    /\ pkgRet.op = "delete_package"
    /\ pkgRet.ok
    /\ pkgRet.rows > 0
    /\ packages # {}
    /\ symbols # {}

\* --------------------------------------------------------- Version: claims

\* C9: the order of versions is the total lexicographic order on (major,
\* minor), and in_range(min, max) is true exactly when min <= self and (max is
\* None or self <= max) in that order, for every version and every range.
C9_VersionOrder ==
    /\ verOut.called =>
         /\ verOut.res = (/\ LexLeq(verIn.min, verIn.v)
                          /\ (verIn.max = None \/ LexLeq(verIn.v, TheVal(verIn.max))))
         /\ (verOut.ord = "Less") = ~LexLeq(verIn.min, verIn.v)
         /\ (verOut.ord = "Equal") = (verIn.v = verIn.min)
         /\ (verOut.ord = "Greater") = ~LexLeq(verIn.v, verIn.min)
    /\ VersionCmp(verIn.v, verIn.min) \in {"Less", "Equal", "Greater"}
    /\ (VersionCmp(verIn.v, verIn.min) = "Less") = (VersionCmp(verIn.min, verIn.v) = "Greater")
    /\ VersionLt(verIn.v, verIn.min) = (LexLeq(verIn.v, verIn.min) /\ verIn.v # verIn.min)
    /\ VersionGt(verIn.v, verIn.min) = (LexLeq(verIn.min, verIn.v) /\ verIn.v # verIn.min)
    /\ \A c \in Versions :
         (~VersionGt(verIn.v, verIn.min) /\ ~VersionGt(verIn.min, c)) => ~VersionGt(verIn.v, c)
    /\ InRange(V(3, 10), V(3, 9), Some(V(3, 12)))
    /\ ~InRange(V(3, 8), V(3, 9), Some(V(3, 12)))
    /\ ~InRange(V(3, 13), V(3, 9), Some(V(3, 12)))
    /\ InRange(V(3, 10), V(3, 9), None)
    /\ InRange(V(4, 0), V(3, 9), None)

\* in_range answered true for a version with a larger major and a smaller
\* minor than min, under a max with a larger major and a smaller minor still
C9_Witness ==
    /\ verOut.called
    /\ verOut.res
    /\ verIn.max # None
    /\ verIn.v.major > verIn.min.major
    /\ verIn.v.minor < verIn.min.minor
    /\ TheVal(verIn.max).major > verIn.v.major
    /\ TheVal(verIn.max).minor < verIn.v.minor

\* ------------------------------------------------------ call graph: claims

\* the store holds facts of file f taken at the modification time f has now
Unchanged(f) ==
    /\ CgExists(f)
    /\ cgStore.mt[f] # None
    /\ TheVal(cgStore.mt[f]) = CgMtime(f)

\* the rows an extraction of file f yields now
FreshRows(f) == RowsOf(ReExtract(EmptyStore, f), f)

\* C5: incremental_call_graph_refresh(), called directly or by cmd_callers,
\* leaves the stored symbols, calls and imports of every file whose
\* modification time is the stored one exactly as they were, and re-extracts
\* the listed files that are new or whose modification time differs.
C5_IncrementalOnlyChanged ==
    [][cgRet'.cmd \in {"incremental_call_graph_refresh", "callers"} =>
          /\ \A f \in CgFiles : Unchanged(f) => RowsOf(cgStore', f) = RowsOf(cgStore, f)
          /\ \A f \in CgFiles : RowsOf(cgStore', f) # RowsOf(cgStore, f) =>
                /\ f \in Listed(cgInv')
                /\ cgStore.mt[f] = None \/ TheVal(cgStore.mt[f]) # CgMtime(f)
                /\ RowsOf(cgStore', f) = FreshRows(f)]_vars

\* an incremental refresh re-extracted src/b.py alone and kept what it had
\* stored for src/a.py
C5_Witness ==
    /\ cgRet.cmd = "incremental_call_graph_refresh"
    /\ cgRet.redone = {"src/b.py"}
    /\ cgStore.mt["src/a.py"] # None
    /\ RowsOf(cgStore, "src/a.py").symbols # {}
    /\ RowsOf(cgStore, "src/b.py") = FreshRows("src/b.py")

\* C6: find_callers(g) is made of the stored edges whose callee is g, all of
\* them and no other, each as (file, caller symbol, line), in the order of
\* file and then line; being a function of the store, it is the same for the
\* same store.
C6_FindCallers ==
    \A g \in QueryNames \cup {"foo"} :
        LET r == FindCallers(cgStore, g)
            edges == {i \in DOMAIN cgStore.calls : cgStore.calls[i].callee = g}
        IN  /\ Len(r) = Cardinality(edges)
            /\ \A i \in edges :
                 \E j \in DOMAIN r :
                    r[j] = <<cgStore.calls[i].file, cgStore.calls[i].caller, cgStore.calls[i].line>>
            /\ \A j \in DOMAIN r :
                 \E i \in edges :
                    r[j] = <<cgStore.calls[i].file, cgStore.calls[i].caller, cgStore.calls[i].line>>
            /\ \A j, k \in DOMAIN r :
                 j < k => \/ FileRank(r[j][1]) < FileRank(r[k][1])
                          \/ (r[j][1] = r[k][1] /\ r[j][3] <= r[k][3])

\* cmd_callers printed the callers of bar: foo in src/a.py, line 1, first,
\* although the edge of src/b.py was stored before it
C6_Witness ==
    /\ cgRet.cmd = "callers"
    /\ cgRet.on = "match"
    /\ Len(FindCallers(cgStore, "bar")) > 1
    /\ FindCallers(cgStore, "bar")[1] = <<"src/a.py", "foo", 1>>
    /\ \E i, j \in DOMAIN cgStore.calls :
         /\ i < j
         /\ cgStore.calls[i].callee = "bar"
         /\ cgStore.calls[j].callee = "bar"
         /\ FileRank(cgStore.calls[i].file) > FileRank(cgStore.calls[j].file)

C11_SymbolsOwned ==
    \A r \in symbols : \E p \in packages : p.id = r.package_id

\* a row of the language and name is stored
Stored(pk, name) == \E p \in pk : p.language = RunLang /\ p.name = name

\* every discovered package is stored
AllStored(pk) == \A k \in 1..Len(Discovered) : Stored(pk, Discovered[k].name)

\* C12: in an indexing run, a discovered package that is stored already when the run
\* reaches it, and for which is_indexed returns, gets no new package row and no new
\* symbol and is not counted; so a run that returns 0 without a store error and began
\* with every discovered package stored, as a second run over the same sources without
\* clear does, counts 0 packages and 0 symbols and leaves both tables as they were.
C12_IndexedSkipped ==
    /\ [][(/\ run.pc = "pkg"
           /\ run' # run
           /\ run.pos <= Len(Discovered)
           /\ Stored(packages, Discovered[run.pos].name)
           /\ run'.is_indexed # "Err")
          => /\ packages' = packages
             /\ symbols' = symbols
             /\ run'.total_packages = run.total_packages
             /\ run'.total_symbols = run.total_symbols
             /\ run'.pc = "pkg"
             /\ run'.pos = run.pos + 1]_vars
    /\ []((run.pc = "done" /\ run.code = 0 /\ ~run.errs)
          => /\ AllStored(packages)
             /\ AllStored(run.start.packages)
                   => /\ run.total_packages = 0
                      /\ run.total_symbols = 0
                      /\ packages = run.start.packages
                      /\ symbols = run.start.symbols)

\* a second run without clear has returned 0 after a first run that stored the
\* discovered packages and their symbols
C12_Witness ==
    /\ run.pc = "done"
    /\ run.code = 0
    /\ run.runs = 2
    /\ run.faults = 0
    /\ run.deletes = 0
    /\ AllStored(run.start.packages)
    /\ run.start.symbols # {}
    /\ run.is_indexed = "Ok(true)"
    /\ packages = run.start.packages

\* C13: cmd_index_packages never returns 0 with counts that include a symbol whose
\* insert_symbol returned an error.
C13_FailedInsertNotCounted ==
    (run.pc = "done" /\ run.code = 0) => ~run.miscounted

\* C14: a reader never finds a package stored with fewer symbols than the writer gives
\* it (an indexing run) or than it had (delete_package), no store call having failed.
C14_ReaderSeesWholePackage ==
    (seen # None /\ ~TheVal(seen).errs) => TheVal(seen).symbols = TheVal(seen).of

\* the positions of the walked paths equal to the query
EqualPaths == {k \in 1..Len(prIn.all_paths) : prIn.all_paths[k][1] = prIn.query}

\* the positions of the walked paths whose file name or stem is the query, case ignored
NamedLikeQuery ==
    {k \in 1..Len(prIn.all_paths) :
        \/ ToLowercase(FileName(prIn.all_paths[k][1])) = ToLowercase(prIn.query)
        \/ ToLowercase(FileStem(prIn.all_paths[k][1])) = ToLowercase(prIn.query)}

\* the matches are the walked path at k alone, with the highest score
OnlyExact(k) ==
    prOut.matches = <<[path |-> prIn.all_paths[k][1],
                       kind |-> IF prIn.all_paths[k][2] THEN "directory" ELSE "file",
                       score |-> U32Max]>>

\* C15 as stated: for every query equal to the relative path of a walked entry, resolve
\* returns that entry alone, with score u32::MAX.
C15_ExactMatchAnyQuery ==
    prOut.called => \A k \in EqualPaths : OnlyExact(k)

\* C15, amended: for every query without ':' equal to the relative path of a walked
\* entry, resolve returns that entry alone, with score u32::MAX, whatever else is walked.
C15_ExactMatch ==
    (prOut.called /\ ~ContainsChar(prIn.query, ":")) => \A k \in EqualPaths : OnlyExact(k)

\* resolve has answered a query that is a walked path, among other paths the query
\* matches as a subsequence
C15_Witness ==
    /\ prOut.called
    /\ ~ContainsChar(prIn.query, ":")
    /\ EqualPaths # {}
    /\ \E k \in 1..Len(prIn.all_paths) :
          k \notin EqualPaths /\ FuzzyHit(prIn.query, prIn.all_paths[k][1])
    /\ Len(prOut.matches) = 1

\* the matches are the walked paths named like the query, each once, with score
\* u32::MAX - 1
AllNamed ==
    /\ Len(prOut.matches) = Cardinality(NamedLikeQuery)
    /\ {m.path : m \in {prOut.matches[i] : i \in 1..Len(prOut.matches)}}
          = {prIn.all_paths[k][1] : k \in NamedLikeQuery}
    /\ \A i \in 1..Len(prOut.matches) : prOut.matches[i].score = U32MaxLess1

\* the matches are walked paths with the scores the matcher gave them, highest first,
\* at most ten
FuzzyOnly ==
    /\ Len(prOut.matches) <= 10
    /\ \A i \in 1..Len(prOut.matches) :
          \E k \in 1..Len(prIn.all_paths) :
              /\ prOut.matches[i].path = prIn.all_paths[k][1]
              /\ prOut.matches[i].score = prIn.score[k]
    /\ \A i \in 1..(Len(prOut.matches) - 1) :
          U32Leq(prOut.matches[i + 1].score, prOut.matches[i].score)

\* C16 as stated: when no walked path equals the query, resolve returns all and only
\* the paths whose file name or stem is the query, case ignored, each with score
\* u32::MAX - 1, if there is one; otherwise fuzzy matches, highest score first, at most 10.
C16_NameThenFuzzyAnyQuery ==
    (prOut.called /\ EqualPaths = {})
        => IF NamedLikeQuery # {} THEN AllNamed ELSE FuzzyOnly

\* C16, amended: the same for every query without ':'.
C16_NameThenFuzzy ==
    (prOut.called /\ ~ContainsChar(prIn.query, ":") /\ EqualPaths = {})
        => IF NamedLikeQuery # {} THEN AllNamed ELSE FuzzyOnly

\* resolve has answered a query that is no walked path and names two files, one by
\* its stem in another case
C16_Witness ==
    /\ prOut.called
    /\ ~ContainsChar(prIn.query, ":")
    /\ EqualPaths = {}
    /\ Cardinality(NamedLikeQuery) = 2
    /\ Len(prOut.matches) = 2

\* resolve has dropped fuzzy matches beyond the tenth
C16_Truncated ==
    /\ prOut.called
    /\ EqualPaths = {}
    /\ NamedLikeQuery = {}
    /\ Len(prOut.matches) = 10
    /\ Cardinality({k \in 1..Len(prIn.all_paths) :
                       FuzzyHit(prIn.query, prIn.all_paths[k][1])}) > 10

\* s ends with suffix
EndsWith(s, suffix) ==
    Len(s) >= Len(suffix) /\ SubSeq(s, Len(s) - Len(suffix) + 1, Len(s)) = suffix

\* C17: find_by_name(name) returns exactly the stored entries whose path is name or
\* ends with "/" followed by name, compared character by character, and leaves the
\* store as it was.
C17_FindByNameLiteral ==
    (ret.op = "find_by_name" /\ ret.ok)
        => ret.files = {f \in db.files : f.path = ret.arg \/ EndsWith(f.path, <<"/">> \o ret.arg)}

\* C18: find_by_stem(stem) returns exactly the stored entries whose file name without
\* its extension is stem, at every depth, directly under the root included.
C18_FindByStemEveryDepth ==
    (ret.op = "find_by_stem" /\ ret.ok)
        => ret.files = {f \in db.files : FileStem(f.path) = ret.arg}

\* the nodes that are functions, and those that are containers: a class in Python, an
\* impl block in Rust
FunctionNodes ==
    {i \in 1..Len(spIn.nodes) : spIn.nodes[i].kind \in {"function_definition", "function_item"}}

ContainersAround(i) ==
    {j \in 1..(i - 1) : /\ spIn.nodes[j].kind \in {"class_definition", "impl_item"}
                        /\ Below(spIn.nodes, j, i)}

\* the innermost container around i
Innermost(i) == CHOOSE j \in ContainersAround(i) : \A k \in ContainersAround(i) : k <= j

ParsedSymbols == {spOut.symbols[n] : n \in 1..Len(spOut.symbols)}

\* C19: in the symbols parse_file returns for a Python or Rust file, the function
\* symbols are the functions of the file, each once; a function inside a class or an
\* impl block is a Method whose parent names the innermost such container, a function
\* outside every container is a Function without parent.
C19_MethodIffInContainer ==
    (spOut.called /\ spIn.ext \in {"py", "rs"})
        => /\ {s.name : s \in {t \in ParsedSymbols : t.kind \in {"Function", "Method"}}}
                 = FunctionNodes
           /\ \A i \in FunctionNodes :
                 \E n \in 1..Len(spOut.symbols) :
                     /\ spOut.symbols[n].name = i
                     /\ \A o \in 1..Len(spOut.symbols) : spOut.symbols[o].name = i => o = n
                     /\ IF ContainersAround(i) # {}
                        THEN /\ spOut.symbols[n].kind = "Method"
                             /\ spOut.symbols[n].parent = Some(Innermost(i))
                        ELSE /\ spOut.symbols[n].kind = "Function"
                             /\ spOut.symbols[n].parent = None

\* parse_file has returned a function nested in a method of a class as a Method, and
\* a function outside the class as a Function
C19_Witness ==
    /\ spOut.called
    /\ \E i, j \in FunctionNodes :
          /\ ContainersAround(i) # {}
          /\ Below(spIn.nodes, j, i)
          /\ ContainersAround(j) # {}
    /\ \E s \in ParsedSymbols : s.kind = "Method" /\ s.parent # None
    /\ \E s \in ParsedSymbols : s.kind = "Function"

\* the final identifier of an expression: the identifier itself, the name after the
\* last '.' or '::', and that of the expression a call, subscript, parenthesis or
\* type argument list is put around
RECURSIVE FinalIdentifier(_)
FinalIdentifier(e) ==
    IF e.form \in {"ident", "attribute", "scoped"} THEN <<e.name>>
    ELSE FinalIdentifier(e.inner[1])

\* the final identifiers of the invoked expressions of the calls, outermost first
RECURSIVE InvokedIdentifiers(_)
InvokedIdentifiers(e) ==
    IF e.form = "ident" THEN <<>>
    ELSE IF e.form \in {"call", "call_arg"}
    THEN <<FinalIdentifier(e.inner[1])>> \o InvokedIdentifiers(e.inner[1])
    ELSE InvokedIdentifiers(e.inner[1])

\* C20: the callee name find_calls_in_source records for a call is the final
\* identifier of the invoked expression, whatever the form of that expression.
C20_CalleeIsFinalIdentifier ==
    spOut.called
        => /\ Len(spOut.calls) = Len(InvokedIdentifiers(spIn))
           /\ \A n \in 1..Len(spOut.calls) :
                 spOut.calls[n].name = InvokedIdentifiers(spIn)[n]

\* ------------------------------------------------- indexing run: claims

IdxFinal == {"Persisted", "Failed"}

\* C21: a file that cannot be read, parsed or handled by its provider ends
\* in Failed and contributes no symbols, and once the run has stopped every
\* file of the run is Persisted or Failed: no file's failure stops the run
\* before the other files are processed.
C21_FailureNeverAbortsRun ==
    idx # <<>> =>
        /\ \A i \in 1..Len(idx.files) :
              idx.state[i] = "Failed" => i \notin idx.symbols
        /\ idx.pc # "running" =>
              \A i \in 1..Len(idx.files) : idx.state[i] \in IdxFinal

\* ------------------------------------------------- FlatContext: claims

\* the last n elements of s, all of s when it has fewer
LastN(s, n) ==
    IF Len(s) <= n THEN s ELSE SubSeq(s, Len(s) - n + 1, Len(s))

\* C22: after any sequence of add calls the context holds at most max_items
\* items, and they are the most recently added ones in insertion order.
C22_KeepsLastN ==
    fc # <<>> =>
        /\ Len(fc.items) <= fc.max_items
        /\ fc.items = LastN(fc.added, fc.max_items)

\* an item was evicted from a context that keeps some
C22_Witness ==
    /\ fc # <<>>
    /\ fc.max_items > 0
    /\ Len(fc.added) > fc.max_items
    /\ fc.items # fc.added

\* ------------------------------------------------- generate_tree: claims

\* the entry of this path is named by a line of the result
Shown(p) ==
    \E line \in TheVal(tr.out).lines : \E i \in 1..Len(line) : line[i] = p

\* the number of ancestor directories of the path that are no boilerplate
EffectiveDepth(p) ==
    Cardinality({ i \in 1..(Len(p) - 1) : p[i] \notin tr.options.boilerplate_dirs })

IsBoilerplateDir(e) ==
    e.is_dir /\ e.path[Len(e.path)] \in tr.options.boilerplate_dirs

TreeDone == tr # <<>> /\ tr.out # None /\ tr.options.max_depth # None

\* C23: with max_depth = d an entry is shown exactly when every directory
\* on its path is shown and its effective depth is less than d or it is
\* itself a boilerplate directory.
C23_ShownIffWithinDepth ==
    TreeDone =>
        \A e \in tr.entries :
            Shown(e.path) <=>
                /\ \A q \in ProperPrefixes(e.path) : Shown(q)
                /\ \/ EffectiveDepth(e.path) < TheVal(tr.options.max_depth)
                   \/ IsBoilerplateDir(e)

\* the same for the entries other than a file that carries the name of a
\* boilerplate directory
C23_ShownIffWithinDepthDirs ==
    TreeDone =>
        \A e \in tr.entries :
            (e.is_dir \/ e.path[Len(e.path)] \notin tr.options.boilerplate_dirs) =>
            (Shown(e.path) <=>
                /\ \A q \in ProperPrefixes(e.path) : Shown(q)
                /\ \/ EffectiveDepth(e.path) < TheVal(tr.options.max_depth)
                   \/ IsBoilerplateDir(e))

\* ------------------------------------------------- resolve_go_import: claims

\* the import path is the module path or lies below it
WithinModule(import_path, module_path) ==
    \/ import_path = module_path
    \/ StrStartsWith(import_path, module_path \o <<"/">>)

\* C24: resolve_go_import returns the root joined with what follows the
\* module path exactly when the import path is the module path or starts
\* with the module path followed by "/"; for any other import path it
\* returns None.
C24_ResolvesOnlyWithinModule ==
    (gi # <<>> /\ gi.out # <<>>) =>
        IF WithinModule(gi.import_path, gi.module)
        THEN gi.out[1] = Some(PathJoin(GoRoot, StripPrefix(gi.import_path, gi.module)))
        ELSE gi.out[1] = None

\* the part that holds: an import path within the module resolves to the
\* root joined with the remainder
C24_ResolvesWithinModule ==
    (gi # <<>> /\ gi.out # <<>> /\ WithinModule(gi.import_path, gi.module)) =>
        gi.out[1] = Some(PathJoin(GoRoot, StripPrefix(gi.import_path, gi.module)))

\* ------------------------------------------------- cmd_callers: re-indexing

\* some stored edge of the store has this callee
HasEdgeTo(store, symbol) ==
    \E i \in DOMAIN store.calls : store.calls[i].callee = symbol

CmdPathReturned == cp # <<>> /\ cp.cmd.pc \in {"returned", "exited"}

\* the answer of cmd_path: from the daemon without a direct resolution when
\* the daemon answered, else from resolve()
AnswerFromOneSource ==
    CmdPathReturned =>
        /\ cp.cmd.answer # None
        /\ cp.cmd.branch = "daemon" =>
              (cp.cmd.answer = Some(cp.cmd.dm) /\ ~cp.cmd.resolved)
        /\ cp.cmd.branch \in {"fallback", "absent"} =>
              (cp.cmd.answer = Some(cp.cmd.rm) /\ cp.cmd.resolved)
        /\ cp.cmd.branch = "absent" => cp.cmd.thread # "none"

\* C26: cmd_path answers from the daemon when the socket exists and the
\* query succeeds, and then does not resolve directly; it answers from the
\* direct resolution when the query fails or the socket is absent; and with
\* the socket absent it starts the daemon in a thread it does not wait for,
\* so that the daemon is running once the command is over.
C26_AnswersAndStartsDaemon ==
    /\ AnswerFromOneSource
    /\ (cp # <<>> /\ cp.cmd.pc = "exited" /\ cp.cmd.branch = "absent") =>
          cp.daemon = "up"

\* the part that holds: the source of the answer
C26_AnswerFromOneSource == AnswerFromOneSource

\* ------------------------------------------------- find_definition: claims

\* the bindings visible at the line, each with the depth of its scope
RECURSIVE VisibleAt(_, _, _)
VisibleAt(scope, depth, line) ==
    IF line < scope.start_line \/ line > scope.end_line THEN {}
    ELSE { [b |-> scope.bindings[k], depth |-> depth] :
             k \in { k \in DOMAIN scope.bindings : scope.bindings[k].line <= line } }
         \cup UNION { VisibleAt(scope.children[k], depth + 1, line) :
                        k \in DOMAIN scope.children }

\* v shadows w: it is of a scope further in, or of the same scope and later
Shadows(v, w) ==
    \/ v.depth > w.depth
    \/ (v.depth = w.depth /\ v.b.line > w.b.line)

ShadowingBindings(p, name, line) ==
    LET vis == { v \in VisibleAt(AnalyzePython(p), 0, line) : v.b.name = name }
    IN { v.b : v \in { v \in vis : \A w \in vis \ {v} : Shadows(v, w) } }

\* C27: find_definition(name, line) returns, among the bindings of name
\* visible at line, the one that shadows all the others: the binding of the
\* innermost scope and, within one scope, the one defined last; it returns
\* None when no binding of name is visible.
C27_FindsShadowingBinding ==
    (sr # <<>> /\ sr.out # <<>>) =>
        sr.out[1] = ShadowingBindings(sr.src, sr.name, sr.line)

\* the same for the sources where no assignment re-binds a parameter
C27_FindsShadowingBindingNoRebind ==
    (/\ sr # <<>>
     /\ sr.out # <<>>
     /\ \A i \in DOMAIN sr.src : \A j \in DOMAIN sr.src :
           ~(/\ sr.src[i].kind = "def"
             /\ sr.src[i].params = <<"x">>
             /\ j > i
             /\ j <= BodyEnd(sr.src, i)
             /\ sr.src[j].indent = sr.src[i].indent + 1
             /\ sr.src[j].name = "x")) =>
        sr.out[1] = ShadowingBindings(sr.src, sr.name, sr.line)

\* ------------------------------------------------- needs_refresh: modifications

\* the latest committed refresh enumerated the watched directory d, and d
\* was modified after that: its modification time is no longer the stored one
ModifiedSinceEnumerated(d) ==
    /\ Exists(fs, d)
    /\ \E r \in db.files : r.path = d /\ r.mtime # MtimeSecs(fs, d)

\* C28: when a watched directory was modified after a refresh enumerated
\* it, be it while the refresh was still running or within the second it
\* recorded as last_indexed, needs_refresh() returns true.
C28_ModificationDetected ==
    (pc = "idle" /\ \E d \in {"src", "lib", "crates"} : ModifiedSinceEnumerated(d))
        => NeedsRefresh(db, fs)

\* the part that holds: a watched directory modified in a second after
\* last_indexed is detected
C28_LaterSecondDetected ==
    (pc = "idle" /\ \E d \in {"src", "lib", "crates"} :
        Exists(fs, d) /\ MtimeSecs(fs, d) > LastIndexed(db))
        => NeedsRefresh(db, fs)

\* ------------------------------------------------- indexing run: versions

\* an indexing run that detected a runtime version has completed without a
\* store error
RunDoneUnderVersion ==
    /\ run # <<>>
    /\ run.pc = "done"
    /\ run.code = 0
    /\ run.runs > 0
    /\ ~run.errs
    /\ run.max_version # None

\* C29: after an indexing run whose detected runtime version is v has
\* completed, find_package(lang_key, name, Some(v)) returns a record for
\* every package the run discovered, whatever earlier runs left in the store.
C29_DiscoveredFoundUnderVersion ==
    RunDoneUnderVersion =>
        \A i \in DOMAIN Discovered :
            FindPackage(packages, RunLang, Discovered[i].name, run.max_version) # None

\* the part that holds: every discovered package is found when no version is
\* asked for
C29_DiscoveredFoundAnyVersion ==
    RunDoneUnderVersion =>
        \A i \in DOMAIN Discovered :
            FindPackage(packages, RunLang, Discovered[i].name, None) # None

\* ------------------------------------------------------------------ C30

\* both processes have finished their runs
PpAllDone == pp # <<>> /\ \A p \in Procs : pp.proc[p].pc = "done"

\* C30: when two package-indexing runs execute concurrently over the same package
\* sources, the store ends with at most one PackageRecord per (language, name),
\* whatever the interleaving of their is_indexed checks and insert_package calls.
C30_OneRecordPerName ==
    PpAllDone =>
        \A r1, r2 \in pp.packages :
            (r1.language = r2.language /\ r1.name = r2.name) => r1 = r2

\* C30, for records of one version range: the store ends without two records of the
\* same (language, name) and the same version range.
C30_OneRecordPerNameAndRange ==
    PpAllDone =>
        \A r1, r2 \in pp.packages :
            (/\ r1.language = r2.language /\ r1.name = r2.name
             /\ r1.min_major = r2.min_major /\ r1.min_minor = r2.min_minor
             /\ r1.max_major = r2.max_major /\ r1.max_minor = r2.max_minor) => r1 = r2

\* C30, the part that holds: one run stores at most one record per (language, name),
\* so the store never holds more records of a name than there are processes.
C30_OneRecordPerNameAndRun ==
    pp # <<>> =>
        \A r1, r2 \in pp.packages :
            (r1.language = r2.language /\ r1.name = r2.name /\ r1.ins = r2.ins) => r1 = r2

====
